---- MODULE Spec2Model ----
(***************************************************************************)
(* EchoTrace: the hub's NarrativeState (src/hub/narrative_state.py) and    *)
(* the node's AudioPlayer (src/pi_nodes/audio_player.py).                  *)
(*                                                                         *)
(* Each component has a sequential specification, in which one action is   *)
(* one whole method call, and a concurrent one, in which the calls of      *)
(* several execution contexts interleave at the level of the individual    *)
(* reads and writes of the shared object.  The variable n_call / a_call    *)
(* records the most recent call of the sequential specifications: its      *)
(* name, its arguments, its result and the object's state before it.       *)
(***************************************************************************)
EXTENDS Integers, Sequences, FiniteSets, TLC

\* ------------------------------------------------------------------ bounds
NumIds == 3            \* node ids are 1..NumIds
MaxReq == 3            \* required_fragments is drawn from -1..MaxReq
NumRegThreads == 2     \* concurrent register_trigger callers
NumAudioThreads == 2   \* concurrent AudioPlayer callers
MaxTemp == 2           \* mkstemp hands out the names 1..MaxTemp

NodeIds == 1..NumIds
\* the dataclass takes any int as required_fragments, zero and negative too
ReqRange == -1..MaxReq
RegThreads == 1..NumRegThreads
AudioThreads == 1..NumAudioThreads
TempNames == 1..(NumAudioThreads + 1)

VARIABLES
    \* NarrativeState fields
    required_fragments, triggered_whispers, unlocked,
    \* the most recent sequential call on the NarrativeState
    n_call,
    \* concurrent register_trigger callers: position, argument, result
    reg_pc, reg_arg, reg_ret,
    \* AudioPlayer fields
    loaded_path, temp_audio, safety_limit, mixer_available,
    \* the temporary directory: the paced files on disk, the next fresh name
    temp_files, next_temp,
    \* pygame.mixer.music: the clip loaded, the loop count, playing, the volume
    mixer_music, mixer_loops, mixer_playing, mixer_volume,
    \* what the most recent AudioPlayer call did (file and backend operations,
    \* in order), the exception it let escape, and the call itself
    a_events, a_raised, a_call,
    \* concurrent AudioPlayer callers: the lock's holder; per caller its
    \* position, call and argument, the locals target and temp_source of play,
    \* temp_path of _make_paced_copy, target of _cleanup_temp_audio and where
    \* that cleanup returns to; and how often each name has been unlinked
    temp_lock, a_pc, a_op, a_arg, a_target, a_temp_source, a_paced, a_clean,
    a_return, unlink_count,
    \* a call of a function without state: its arguments, whether it has
    \* returned, and its result
    p_in, p_done, p_out,
    \* the profile document the hub holds, and what the most recent call of
    \* the profile store did with it
    profiles, s_call

narrVars == <<required_fragments, triggered_whispers, unlocked>>
regVars == <<reg_pc, reg_arg, reg_ret>>
audioVars == <<loaded_path, temp_audio, safety_limit, mixer_available,
               temp_files, next_temp,
               mixer_music, mixer_loops, mixer_playing, mixer_volume,
               a_events, a_raised, a_call>>
concVars == <<temp_lock, a_pc, a_op, a_arg, a_target, a_temp_source, a_paced,
              a_clean, a_return, unlink_count>>
hubVars == <<p_in, p_done, p_out, profiles, s_call>>
vars == <<narrVars, n_call, regVars, audioVars, concVars, hubVars>>

\* ============================================================ NarrativeState

NState == [required_fragments |-> required_fragments,
           triggered_whispers |-> triggered_whispers,
           unlocked |-> unlocked]

\* dataclass construction: empty set, unlocked = False, any threshold
InitNarrative ==
    /\ required_fragments \in ReqRange
    /\ triggered_whispers = {}
    /\ unlocked = FALSE

IdleNarrative ==
    /\ required_fragments = 1
    /\ triggered_whispers = {}
    /\ unlocked = FALSE

IdleReg ==
    /\ reg_pc = [t \in RegThreads |-> "done"]
    /\ reg_arg = [t \in RegThreads |-> 1]
    /\ reg_ret = [t \in RegThreads |-> "none"]

\* no call of the hub's pure functions, no profile document
IdleHub ==
    /\ p_in = <<>>
    /\ p_done = FALSE
    /\ p_out = <<>>
    /\ profiles = <<>>
    /\ s_call = <<>>

\* no clip, no paced copy: the handle is None, the backend holds nothing
NoTemp == 0
NoThread == 0
PaceTolerance == 2
SrcTarget(path) == [src |-> path, tmp |-> NoTemp]
TmpTarget(n) == [src |-> "", tmp |-> n]
NoTarget == [src |-> "", tmp |-> NoTemp]

IdleConc ==
    /\ temp_lock = NoThread
    /\ a_pc = [t \in AudioThreads |-> "done"]
    /\ a_op = [t \in AudioThreads |-> ""]
    /\ a_arg = [t \in AudioThreads |-> ""]
    /\ a_target = [t \in AudioThreads |-> NoTarget]
    /\ a_temp_source = [t \in AudioThreads |-> NoTemp]
    /\ a_paced = [t \in AudioThreads |-> NoTemp]
    /\ a_clean = [t \in AudioThreads |-> NoTemp]
    /\ a_return = [t \in AudioThreads |-> "done"]
    /\ unlink_count = [n \in TempNames |-> 0]

IdleAudio ==
    /\ loaded_path = "none"
    /\ temp_audio = NoTemp
    /\ safety_limit = 100
    /\ mixer_available = FALSE
    /\ temp_files = {}
    /\ next_temp = 1
    /\ mixer_music = NoTarget
    /\ mixer_loops = 0
    /\ mixer_playing = FALSE
    /\ mixer_volume = 100
    /\ a_events = <<>>
    /\ a_raised = "none"
    /\ a_call = [op |-> "init", pace |-> 100, io |-> "", ret |-> NoTemp]
    /\ IdleConc

\* `node_id in self.triggered_whispers`
IsDuplicateAlways(node_id, whispers) == FALSE
IsDuplicate(node_id, whispers) == node_id \in whispers

\* `if not self.unlocked and len(self.triggered_whispers) >= self.required_fragments`
ShouldUnlockStrict(unl, whispers, req) == ~unl /\ Cardinality(whispers) > req
ShouldUnlock(unl, whispers, req) == ~unl /\ Cardinality(whispers) >= req

\* NarrativeState.register_trigger, as one atomic call
register_trigger(node_id) ==
    /\ n_call' = [op |-> "register_trigger", id |-> node_id,
                  ret |-> ~IsDuplicate(node_id, triggered_whispers),
                  pre |-> NState]
    /\ IF IsDuplicate(node_id, triggered_whispers)
       THEN UNCHANGED <<triggered_whispers, unlocked>>
       ELSE /\ triggered_whispers' = triggered_whispers \cup {node_id}
            /\ unlocked' = IF ShouldUnlock(unlocked, triggered_whispers', required_fragments)
                           THEN TRUE ELSE unlocked
    /\ UNCHANGED <<required_fragments, regVars, audioVars, concVars, hubVars>>

\* NarrativeState.reset
ResetKeepsFlag == unlocked
ResetFlag == FALSE
reset ==
    /\ n_call' = [op |-> "reset", id |-> 0, ret |-> FALSE, pre |-> NState]
    /\ triggered_whispers' = {}
    /\ unlocked' = ResetFlag
    /\ UNCHANGED <<required_fragments, regVars, audioVars, concVars, hubVars>>

InitSeqNarrative ==
    /\ InitNarrative
    /\ n_call = [op |-> "init", id |-> 0, ret |-> FALSE, pre |-> NState]
    /\ IdleReg
    /\ IdleAudio
    /\ IdleHub

NextNarrative ==
    \/ \E node_id \in NodeIds : register_trigger(node_id)
    \/ reset

SpecNarrative == InitSeqNarrative /\ [][NextNarrative]_vars

\* ------------------------------------------- concurrent register_trigger
\* Each caller runs register_trigger once; the steps are the method's
\* separate accesses to the shared object (no lock is taken in the code).

RegAt(t, here, there) ==
    /\ reg_pc[t] = here
    /\ reg_pc' = [reg_pc EXCEPT ![t] = there]

\* the call is made
RegCall(t, node_id) ==
    /\ RegAt(t, "idle", "test")
    /\ reg_arg' = [reg_arg EXCEPT ![t] = node_id]
    /\ UNCHANGED <<narrVars, n_call, reg_ret, audioVars, concVars, hubVars>>

\* line 22-23: membership test, return False for a duplicate
RegTest(t) ==
    /\ reg_pc[t] = "test"
    /\ IF IsDuplicate(reg_arg[t], triggered_whispers)
       THEN /\ reg_pc' = [reg_pc EXCEPT ![t] = "done"]
            /\ reg_ret' = [reg_ret EXCEPT ![t] = "false"]
       ELSE /\ reg_pc' = [reg_pc EXCEPT ![t] = "add"]
            /\ UNCHANGED reg_ret
    /\ UNCHANGED <<narrVars, n_call, reg_arg, audioVars, concVars, hubVars>>

\* line 24: set.add
RegAdd(t) ==
    /\ RegAt(t, "add", "check")
    /\ triggered_whispers' = triggered_whispers \cup {reg_arg[t]}
    /\ UNCHANGED <<required_fragments, unlocked, n_call, reg_arg, reg_ret, audioVars, concVars, hubVars>>

\* line 25: the unlock condition is evaluated
RegCheck(t) ==
    /\ reg_pc[t] = "check"
    /\ IF ShouldUnlock(unlocked, triggered_whispers, required_fragments)
       THEN reg_pc' = [reg_pc EXCEPT ![t] = "set"]
       ELSE reg_pc' = [reg_pc EXCEPT ![t] = "return"]
    /\ UNCHANGED <<narrVars, n_call, reg_arg, reg_ret, audioVars, concVars, hubVars>>

\* line 26: self.unlocked = True
RegSet(t) ==
    /\ RegAt(t, "set", "return")
    /\ unlocked' = TRUE
    /\ UNCHANGED <<required_fragments, triggered_whispers, n_call, reg_arg, reg_ret, audioVars, concVars, hubVars>>

\* line 27: return True
RegReturn(t) ==
    /\ RegAt(t, "return", "done")
    /\ reg_ret' = [reg_ret EXCEPT ![t] = "true"]
    /\ UNCHANGED <<narrVars, n_call, reg_arg, audioVars, concVars, hubVars>>

InitRegConcurrent ==
    /\ InitNarrative
    /\ n_call = [op |-> "init", id |-> 0, ret |-> FALSE, pre |-> NState]
    /\ reg_pc = [t \in RegThreads |-> "idle"]
    /\ reg_arg = [t \in RegThreads |-> 1]
    /\ reg_ret = [t \in RegThreads |-> "none"]
    /\ IdleAudio
    /\ IdleHub

NextRegConcurrent ==
    \/ \E t \in RegThreads, node_id \in NodeIds : RegCall(t, node_id)
    \/ \E t \in RegThreads : RegTest(t)
    \/ \E t \in RegThreads : RegAdd(t)
    \/ \E t \in RegThreads : RegCheck(t)
    \/ \E t \in RegThreads : RegSet(t)
    \/ \E t \in RegThreads : RegReturn(t)

SpecRegConcurrent == InitRegConcurrent /\ [][NextRegConcurrent]_vars

\* =============================================================== AudioPlayer
\* Volumes, limits and paces are in hundredths (0.9 is 90).

IsWav(path) == path \in {"clip.wav", "junk.wav", "trunc.wav"}

\* what reading the loaded source and writing the copy can end in (lines
\* 121-129): a sound WAV is copied unless the write fails (OSError); a file
\* that is no RIFF/WAVE raises wave.Error; a WAV cut short inside its header
\* makes wave.open raise EOFError.
CopyOutcomes(path) ==
    CASE path = "clip.wav" -> {"ok", "OSError"}
      [] path = "junk.wav" -> {"wave.Error"}
      [] path = "trunc.wav" -> {"EOFError"}
      [] OTHER -> {"ok"}

\* the player and its surroundings as one value
Eng == [loaded_path |-> loaded_path, temp_audio |-> temp_audio,
        safety_limit |-> safety_limit, mixer_available |-> mixer_available,
        temp_files |-> temp_files, next_temp |-> next_temp,
        mixer_music |-> mixer_music, mixer_loops |-> mixer_loops,
        mixer_playing |-> mixer_playing, mixer_volume |-> mixer_volume,
        events |-> a_events, raised |-> a_raised]

SetEng(s) ==
    /\ loaded_path' = s.loaded_path
    /\ temp_audio' = s.temp_audio
    /\ safety_limit' = s.safety_limit
    /\ mixer_available' = s.mixer_available
    /\ temp_files' = s.temp_files
    /\ next_temp' = s.next_temp
    /\ mixer_music' = s.mixer_music
    /\ mixer_loops' = s.mixer_loops
    /\ mixer_playing' = s.mixer_playing
    /\ mixer_volume' = s.mixer_volume
    /\ a_events' = s.events
    /\ a_raised' = s.raised

\* a call starts with an empty record of what it did
Fresh(s) == [s EXCEPT !.events = <<>>, !.raised = "none"]
Emit(s, what, n) == [s EXCEPT !.events = Append(@, [ev |-> what, tmp |-> n])]

Min2(a, b) == IF a < b THEN a ELSE b
Max2(a, b) == IF a > b THEN a ELSE b
Abs(x) == IF x < 0 THEN -x ELSE x

\* AudioPlayer._cleanup_temp_audio: under the lock take the handle and set it
\* to None; then unlink(missing_ok=True)
CleanupKeepsFile(s) ==
    IF s.temp_audio = NoTemp THEN s
    ELSE [s EXCEPT !.temp_audio = NoTemp]
CleanupTempAudio(s) ==
    IF s.temp_audio = NoTemp THEN s
    ELSE Emit([s EXCEPT !.temp_audio = NoTemp,
                        !.temp_files = @ \ {s.temp_audio}],
              "unlink", s.temp_audio)

\* AudioPlayer.load
Load(s, path) == [CleanupTempAudio(s) EXCEPT !.loaded_path = path]

\* AudioPlayer.set_safety_limit
SetSafetyLimit(s, limit) ==
    [s EXCEPT !.safety_limit = Max2(0, Min2(100, limit))]

\* AudioPlayer.set_volume
SetVolumeUnlimited(s, value) ==
    IF ~s.mixer_available THEN s
    ELSE Emit([s EXCEPT !.mixer_volume = Max2(0, Min2(100, value))],
              "mixer.set_volume", 0)
SetVolume(s, value) ==
    LET requested == Max2(0, Min2(100, value))
        effective == Min2(requested, s.safety_limit)
    IN  IF ~s.mixer_available THEN s
        ELSE Emit([s EXCEPT !.mixer_volume = effective], "mixer.set_volume", 0)

\* AudioPlayer._make_paced_copy; io is how the read and write end.
\* The result: the state, the path returned (NoTemp for None).
MakePacedCopy(s0, pace, io) ==
    LET s == Emit(s0, "_make_paced_copy", NoTemp) IN
    IF ~IsWav(s.loaded_path) THEN [s |-> s, ret |-> NoTemp]
    ELSE LET s1 == CleanupTempAudio(s)
             n == s1.next_temp
             s2 == Emit([s1 EXCEPT !.next_temp = n + 1,
                                   !.temp_files = @ \cup {n}], "mkstemp", n)
         IN  CASE io = "ok" ->
                    [s |-> [s2 EXCEPT !.temp_audio = n], ret |-> n]
               [] io \in {"OSError", "wave.Error"} ->
                    [s |-> Emit([s2 EXCEPT !.temp_files = @ \ {n}], "unlink", n),
                     ret |-> NoTemp]
               [] OTHER ->
                    \* not an exception line 130 names: it escapes
                    [s |-> [s2 EXCEPT !.raised = io], ret |-> NoTemp]

\* AudioPlayer._select_playback_source
SelectAboveTolerance(s, pace, io) ==
    IF ~s.mixer_available \/ Abs(pace - 100) <= PaceTolerance
    THEN [s |-> s, ret |-> SrcTarget(s.loaded_path)]
    ELSE LET m == MakePacedCopy(s, pace, io)
         IN  IF m.ret = NoTemp
             THEN [s |-> m.s, ret |-> SrcTarget(s.loaded_path)]
             ELSE [s |-> m.s, ret |-> TmpTarget(m.ret)]
SelectPlaybackSource(s, pace, io) ==
    IF ~s.mixer_available \/ Abs(pace - 100) < PaceTolerance
    THEN [s |-> s, ret |-> SrcTarget(s.loaded_path)]
    ELSE LET m == MakePacedCopy(s, pace, io)
         IN  IF m.ret = NoTemp
             THEN [s |-> m.s, ret |-> SrcTarget(s.loaded_path)]
             ELSE [s |-> m.s, ret |-> TmpTarget(m.ret)]

\* mixer.music.load(target); mixer.music.play(loops), either of which may raise
BackendStart(s, target, loops, backend) ==
    LET loaded == Emit(s, "mixer.load", target.tmp)
    IN  CASE backend = "load raises" -> loaded
          [] backend = "play raises" ->
                Emit([loaded EXCEPT !.mixer_music = target], "mixer.play", target.tmp)
          [] OTHER ->
                Emit([loaded EXCEPT !.mixer_music = target,
                                    !.mixer_loops = loops,
                                    !.mixer_playing = TRUE], "mixer.play", target.tmp)

\* AudioPlayer.play
PlayNoFinally(s, fin) == s
PlayFinally(s, temp_source) ==
    IF temp_source # NoTemp THEN CleanupTempAudio(s) ELSE s

Play(s, loop, pace, repeat, io, backend) ==
    IF s.loaded_path = "none" THEN s
    ELSE IF ~s.mixer_available THEN s
    ELSE LET sel == SelectPlaybackSource(s, pace, io)
             temp_source == IF sel.s.temp_audio # NoTemp
                               /\ sel.ret = TmpTarget(sel.s.temp_audio)
                            THEN sel.s.temp_audio ELSE NoTemp
             loops == IF repeat > 0 THEN repeat ELSE (IF loop THEN -1 ELSE 0)
         IN  IF sel.s.raised # "none" THEN sel.s
             ELSE PlayFinally(BackendStart(sel.s, sel.ret, loops, backend), temp_source)

\* AudioPlayer.stop
StopUnchecked(s) == Emit([s EXCEPT !.mixer_playing = FALSE], "mixer.stop", 0)
Stop(s) ==
    IF ~s.mixer_available THEN s
    ELSE Emit([s EXCEPT !.mixer_playing = FALSE], "mixer.stop", 0)

\* --------------------------------------------------- the calls, as actions
Paths == {"clip.wav", "junk.wav", "trunc.wav", "clip.mp3"}
Levels == {-20, 40, 130}
Paces == {90, 99, 102}
Repeats == {0, 2}
Backends == {"ok", "load raises", "play raises"}

Others == UNCHANGED <<narrVars, n_call, regVars, concVars, hubVars>>

DoLoad(path) ==
    /\ SetEng(Load(Fresh(Eng), path))
    /\ a_call' = [op |-> "load", pace |-> 100, io |-> "", ret |-> NoTemp]
    /\ Others

DoSetSafetyLimit(limit) ==
    /\ SetEng(SetSafetyLimit(Fresh(Eng), limit))
    /\ a_call' = [op |-> "set_safety_limit", pace |-> limit, io |-> "", ret |-> NoTemp]
    /\ Others

DoSetVolume(value) ==
    /\ SetEng(SetVolume(Fresh(Eng), value))
    /\ a_call' = [op |-> "set_volume", pace |-> value, io |-> "", ret |-> NoTemp]
    /\ Others

\* play needs a fresh temporary name only when it makes a copy
DoPlay(loop, pace, repeat, io, backend) ==
    /\ next_temp <= MaxTemp
    /\ SetEng(Play(Fresh(Eng), loop, pace, repeat, io, backend))
    /\ a_call' = [op |-> "play", pace |-> pace, io |-> io, ret |-> NoTemp]
    /\ Others

DoStop ==
    /\ SetEng(Stop(Fresh(Eng)))
    /\ a_call' = [op |-> "stop", pace |-> 100, io |-> "", ret |-> NoTemp]
    /\ Others

\* _make_paced_copy called on its own, as the tests do (a source is loaded)
DoMakePacedCopy(pace, io) ==
    /\ loaded_path # "none"
    /\ next_temp <= MaxTemp
    /\ LET m == MakePacedCopy(Fresh(Eng), pace, io)
       IN  /\ SetEng(m.s)
           /\ a_call' = [op |-> "_make_paced_copy", pace |-> pace, io |-> io,
                         ret |-> m.ret]
    /\ Others

\* _cleanup_temp_audio called on its own (explicit cleanup, __del__)
DoCleanup ==
    /\ SetEng(CleanupTempAudio(Fresh(Eng)))
    /\ a_call' = [op |-> "_cleanup_temp_audio", pace |-> 100, io |-> "", ret |-> NoTemp]
    /\ Others

\* the file the handle names disappears without the player's doing (the
\* case unlink(missing_ok=True) provides for)
FileVanishes ==
    /\ temp_audio # NoTemp
    /\ temp_audio \in temp_files
    /\ temp_files' = temp_files \ {temp_audio}
    /\ a_events' = <<>>
    /\ a_raised' = "none"
    /\ a_call' = [op |-> "file vanishes", pace |-> 100, io |-> "", ret |-> NoTemp]
    /\ UNCHANGED <<loaded_path, temp_audio, safety_limit, mixer_available, next_temp,
                   mixer_music, mixer_loops, mixer_playing, mixer_volume>>
    /\ Others

\* AudioPlayer.__init__, with or without a working pygame.mixer
InitAudio ==
    /\ loaded_path = "none"
    /\ temp_audio = NoTemp
    /\ safety_limit = 100
    /\ mixer_available \in BOOLEAN
    /\ temp_files = {}
    /\ next_temp = 1
    /\ mixer_music = NoTarget
    /\ mixer_loops = 0
    /\ mixer_playing = FALSE
    /\ mixer_volume = 100
    /\ a_events = <<>>
    /\ a_raised = "none"
    /\ a_call = [op |-> "init", pace |-> 100, io |-> "", ret |-> NoTemp]

InitSeqAudio ==
    /\ InitAudio
    /\ IdleConc
    /\ IdleNarrative
    /\ n_call = [op |-> "init", id |-> 0, ret |-> FALSE, pre |-> NState]
    /\ IdleReg
    /\ IdleHub

NextAudio ==
    \/ \E path \in Paths : DoLoad(path)
    \/ \E limit \in Levels : DoSetSafetyLimit(limit)
    \/ \E value \in Levels : DoSetVolume(value)
    \/ \E loop \in BOOLEAN, pace \in Paces, repeat \in Repeats,
          io \in CopyOutcomes(loaded_path), backend \in Backends :
            DoPlay(loop, pace, repeat, io, backend)
    \/ DoStop
    \/ \E pace \in Paces, io \in CopyOutcomes(loaded_path) :
            DoMakePacedCopy(pace, io)
    \/ DoCleanup
    \/ FileVanishes

SpecAudio == InitSeqAudio /\ [][NextAudio]_vars

\* ------------------------------------------- AudioPlayer, concurrent calls
\* Each execution context makes one call (play, load or an explicit cleanup)
\* on a player that has a WAV clip loaded and a working backend, and that may
\* already hold a paced copy.  A step is one access to the player's fields,
\* to the temporary directory or to the backend; _temp_lock is held exactly
\* where the code holds it (lines 134-135 and 140-144).

AtPc(t, here, there) ==
    /\ a_pc[t] = here
    /\ a_pc' = [a_pc EXCEPT ![t] = there]
Goto(t, there) == a_pc' = [a_pc EXCEPT ![t] = there]

ConcFrame == UNCHANGED <<narrVars, n_call, regVars, safety_limit, mixer_available,
                         mixer_loops, mixer_volume, a_events, a_raised, a_call,
                         hubVars>>

\* a context enters play(pace=0.9), load(path) or _cleanup_temp_audio()
CallPlay(t) ==
    /\ AtPc(t, "idle", "pl_check")
    /\ a_op' = [a_op EXCEPT ![t] = "play"]
    /\ UNCHANGED <<loaded_path, temp_audio, temp_files, next_temp, mixer_music,
                   mixer_playing, temp_lock, a_arg, a_target, a_temp_source,
                   a_paced, a_clean, a_return, unlink_count>>
    /\ ConcFrame

CallLoad(t, path) ==
    /\ AtPc(t, "idle", "cl_acquire")
    /\ a_op' = [a_op EXCEPT ![t] = "load"]
    /\ a_arg' = [a_arg EXCEPT ![t] = path]
    /\ a_return' = [a_return EXCEPT ![t] = "ld_set"]
    /\ UNCHANGED <<loaded_path, temp_audio, temp_files, next_temp, mixer_music,
                   mixer_playing, temp_lock, a_target, a_temp_source,
                   a_paced, a_clean, unlink_count>>
    /\ ConcFrame

CallCleanup(t) ==
    /\ AtPc(t, "idle", "cl_acquire")
    /\ a_op' = [a_op EXCEPT ![t] = "cleanup"]
    /\ a_return' = [a_return EXCEPT ![t] = "done"]
    /\ UNCHANGED <<loaded_path, temp_audio, temp_files, next_temp, mixer_music,
                   mixer_playing, temp_lock, a_arg, a_target, a_temp_source,
                   a_paced, a_clean, unlink_count>>
    /\ ConcFrame

\* _cleanup_temp_audio, line 140: with self._temp_lock
LockIgnored(t) == TRUE
LockFree(t) == temp_lock = NoThread
CleanAcquire(t) ==
    /\ AtPc(t, "cl_acquire", "cl_test")
    /\ LockFree(t)
    /\ temp_lock' = t
    /\ UNCHANGED <<loaded_path, temp_audio, temp_files, next_temp, mixer_music,
                   mixer_playing, a_op, a_arg, a_target, a_temp_source,
                   a_paced, a_clean, a_return, unlink_count>>
    /\ ConcFrame

\* lines 141-142: if self._temp_audio is None: return (the lock is released)
CleanTest(t) ==
    /\ a_pc[t] = "cl_test"
    /\ IF temp_audio = NoTemp
       THEN /\ Goto(t, a_return[t])
            /\ temp_lock' = NoThread
       ELSE /\ Goto(t, "cl_take")
            /\ UNCHANGED temp_lock
    /\ UNCHANGED <<loaded_path, temp_audio, temp_files, next_temp, mixer_music,
                   mixer_playing, a_op, a_arg, a_target, a_temp_source,
                   a_paced, a_clean, a_return, unlink_count>>
    /\ ConcFrame

\* line 143: target = self._temp_audio
CleanTake(t) ==
    /\ AtPc(t, "cl_take", "cl_null")
    /\ a_clean' = [a_clean EXCEPT ![t] = temp_audio]
    /\ UNCHANGED <<loaded_path, temp_audio, temp_files, next_temp, mixer_music,
                   mixer_playing, temp_lock, a_op, a_arg, a_target, a_temp_source,
                   a_paced, a_return, unlink_count>>
    /\ ConcFrame

\* line 144: self._temp_audio = None, and the lock is released
CleanNull(t) ==
    /\ AtPc(t, "cl_null", "cl_unlink")
    /\ temp_audio' = NoTemp
    /\ temp_lock' = NoThread
    /\ UNCHANGED <<loaded_path, temp_files, next_temp, mixer_music,
                   mixer_playing, a_op, a_arg, a_target, a_temp_source,
                   a_paced, a_clean, a_return, unlink_count>>
    /\ ConcFrame

\* line 146: target.unlink(missing_ok=True), outside the lock
CleanUnlink(t) ==
    /\ a_pc[t] = "cl_unlink"
    /\ Goto(t, a_return[t])
    /\ temp_files' = temp_files \ {a_clean[t]}
    /\ unlink_count' = [unlink_count EXCEPT ![a_clean[t]] = @ + 1]
    /\ UNCHANGED <<loaded_path, temp_audio, next_temp, mixer_music,
                   mixer_playing, temp_lock, a_op, a_arg, a_target, a_temp_source,
                   a_paced, a_clean, a_return>>
    /\ ConcFrame

\* load, line 42: self._loaded_path = path
LoadSet(t) ==
    /\ AtPc(t, "ld_set", "done")
    /\ loaded_path' = a_arg[t]
    /\ UNCHANGED <<temp_audio, temp_files, next_temp, mixer_music,
                   mixer_playing, temp_lock, a_op, a_arg, a_target, a_temp_source,
                   a_paced, a_clean, a_return, unlink_count>>
    /\ ConcFrame

\* play, lines 65-70 and _select_playback_source, lines 98-101 (pace is 0.9)
PlayCheck(t) ==
    /\ a_pc[t] = "pl_check"
    /\ IF loaded_path = "none" \/ ~mixer_available
       THEN Goto(t, "done")
       ELSE Goto(t, "mk_suffix")
    /\ UNCHANGED <<loaded_path, temp_audio, temp_files, next_temp, mixer_music,
                   mixer_playing, temp_lock, a_op, a_arg, a_target, a_temp_source,
                   a_paced, a_clean, a_return, unlink_count>>
    /\ ConcFrame

\* _make_paced_copy, lines 110-116: not a WAV: None, and the source is played;
\* a WAV: the previous copy is cleaned up first
MakeSuffix(t) ==
    /\ a_pc[t] = "mk_suffix"
    /\ IF IsWav(loaded_path)
       THEN /\ Goto(t, "cl_acquire")
            /\ a_return' = [a_return EXCEPT ![t] = "mk_mkstemp"]
            /\ UNCHANGED a_target
       ELSE /\ Goto(t, "ts_read1")
            /\ a_target' = [a_target EXCEPT ![t] = SrcTarget(loaded_path)]
            /\ UNCHANGED a_return
    /\ UNCHANGED <<loaded_path, temp_audio, temp_files, next_temp, mixer_music,
                   mixer_playing, temp_lock, a_op, a_arg, a_temp_source,
                   a_paced, a_clean, unlink_count>>
    /\ ConcFrame

\* line 117: tempfile.mkstemp
MakeMkstemp(t) ==
    /\ AtPc(t, "mk_mkstemp", "mk_copy")
    /\ a_paced' = [a_paced EXCEPT ![t] = next_temp]
    /\ temp_files' = temp_files \cup {next_temp}
    /\ next_temp' = next_temp + 1
    /\ UNCHANGED <<loaded_path, temp_audio, mixer_music,
                   mixer_playing, temp_lock, a_op, a_arg, a_target, a_temp_source,
                   a_clean, a_return, unlink_count>>
    /\ ConcFrame

\* lines 120-133: the copy is written, or the attempt fails, its file is
\* unlinked and the source is played (line 104)
MakeCopy(t, io) ==
    /\ a_pc[t] = "mk_copy"
    /\ io \in CopyOutcomes(loaded_path)
    /\ IF io = "ok"
       THEN /\ Goto(t, "mk_store")
            /\ UNCHANGED <<temp_files, a_target>>
       ELSE /\ Goto(t, "ts_read1")
            /\ temp_files' = temp_files \ {a_paced[t]}
            /\ a_target' = [a_target EXCEPT ![t] = SrcTarget(loaded_path)]
    /\ UNCHANGED <<loaded_path, temp_audio, next_temp, mixer_music,
                   mixer_playing, temp_lock, a_op, a_arg, a_temp_source,
                   a_paced, a_clean, a_return, unlink_count>>
    /\ ConcFrame

\* lines 134-136: with self._temp_lock: self._temp_audio = temp_path
MakeStore(t) ==
    /\ AtPc(t, "mk_store", "ts_read1")
    /\ LockFree(t)
    /\ temp_audio' = a_paced[t]
    /\ a_target' = [a_target EXCEPT ![t] = TmpTarget(a_paced[t])]
    /\ UNCHANGED <<loaded_path, temp_files, next_temp, mixer_music,
                   mixer_playing, temp_lock, a_op, a_arg, a_temp_source,
                   a_paced, a_clean, a_return, unlink_count>>
    /\ ConcFrame

\* line 72, read without the lock:
\*   self._temp_audio if self._temp_audio and target == self._temp_audio else None
TempSourceRead1(t) ==
    /\ a_pc[t] = "ts_read1"
    /\ IF temp_audio = NoTemp
       THEN /\ Goto(t, "pl_mixer_load")
            /\ a_temp_source' = [a_temp_source EXCEPT ![t] = NoTemp]
       ELSE /\ Goto(t, "ts_read2")
            /\ UNCHANGED a_temp_source
    /\ UNCHANGED <<loaded_path, temp_audio, temp_files, next_temp, mixer_music,
                   mixer_playing, temp_lock, a_op, a_arg, a_target,
                   a_paced, a_clean, a_return, unlink_count>>
    /\ ConcFrame

TempSourceRead2(t) ==
    /\ a_pc[t] = "ts_read2"
    /\ IF a_target[t] = TmpTarget(temp_audio) /\ temp_audio # NoTemp
       THEN /\ Goto(t, "ts_read3")
            /\ UNCHANGED a_temp_source
       ELSE /\ Goto(t, "pl_mixer_load")
            /\ a_temp_source' = [a_temp_source EXCEPT ![t] = NoTemp]
    /\ UNCHANGED <<loaded_path, temp_audio, temp_files, next_temp, mixer_music,
                   mixer_playing, temp_lock, a_op, a_arg, a_target,
                   a_paced, a_clean, a_return, unlink_count>>
    /\ ConcFrame

TempSourceRead3(t) ==
    /\ AtPc(t, "ts_read3", "pl_mixer_load")
    /\ a_temp_source' = [a_temp_source EXCEPT ![t] = temp_audio]
    /\ UNCHANGED <<loaded_path, temp_audio, temp_files, next_temp, mixer_music,
                   mixer_playing, temp_lock, a_op, a_arg, a_target,
                   a_paced, a_clean, a_return, unlink_count>>
    /\ ConcFrame

\* line 75: mixer.music.load(str(target)); a file that is gone makes it raise
TargetOnDisk(target) == target.tmp = NoTemp \/ target.tmp \in temp_files
MixerLoad(t) ==
    /\ a_pc[t] = "pl_mixer_load"
    /\ IF TargetOnDisk(a_target[t])
       THEN /\ Goto(t, "pl_mixer_play")
            /\ mixer_music' = a_target[t]
       ELSE /\ Goto(t, "pl_finally")
            /\ UNCHANGED mixer_music
    /\ UNCHANGED <<loaded_path, temp_audio, temp_files, next_temp,
                   mixer_playing, temp_lock, a_op, a_arg, a_target, a_temp_source,
                   a_paced, a_clean, a_return, unlink_count>>
    /\ ConcFrame

\* line 76: mixer.music.play(loops)
MixerPlay(t) ==
    /\ AtPc(t, "pl_mixer_play", "pl_finally")
    /\ mixer_playing' = TRUE
    /\ UNCHANGED <<loaded_path, temp_audio, temp_files, next_temp, mixer_music,
                   temp_lock, a_op, a_arg, a_target, a_temp_source,
                   a_paced, a_clean, a_return, unlink_count>>
    /\ ConcFrame

\* lines 85-87: finally: if temp_source is not None: self._cleanup_temp_audio()
PlayFinallyStep(t) ==
    /\ a_pc[t] = "pl_finally"
    /\ IF a_temp_source[t] # NoTemp
       THEN /\ Goto(t, "cl_acquire")
            /\ a_return' = [a_return EXCEPT ![t] = "done"]
       ELSE /\ Goto(t, "done")
            /\ UNCHANGED a_return
    /\ UNCHANGED <<loaded_path, temp_audio, temp_files, next_temp, mixer_music,
                   mixer_playing, temp_lock, a_op, a_arg, a_target, a_temp_source,
                   a_paced, a_clean, unlink_count>>
    /\ ConcFrame

ConcPaths == {"clip.wav", "clip.mp3"}

\* a player with a WAV loaded, with or without a paced copy already held
InitAudioConcurrent ==
    /\ loaded_path = "clip.wav"
    /\ mixer_available = TRUE
    /\ \/ temp_audio = NoTemp /\ temp_files = {} /\ next_temp = 1
       \/ temp_audio = 1 /\ temp_files = {1} /\ next_temp = 2
    /\ safety_limit = 100
    /\ mixer_music = NoTarget
    /\ mixer_loops = 0
    /\ mixer_playing = FALSE
    /\ mixer_volume = 100
    /\ a_events = <<>>
    /\ a_raised = "none"
    /\ a_call = [op |-> "init", pace |-> 100, io |-> "", ret |-> NoTemp]
    /\ temp_lock = NoThread
    /\ a_pc = [t \in AudioThreads |-> "idle"]
    /\ a_op = [t \in AudioThreads |-> ""]
    /\ a_arg = [t \in AudioThreads |-> ""]
    /\ a_target = [t \in AudioThreads |-> NoTarget]
    /\ a_temp_source = [t \in AudioThreads |-> NoTemp]
    /\ a_paced = [t \in AudioThreads |-> NoTemp]
    /\ a_clean = [t \in AudioThreads |-> NoTemp]
    /\ a_return = [t \in AudioThreads |-> "done"]
    /\ unlink_count = [n \in TempNames |-> 0]
    /\ IdleNarrative
    /\ n_call = [op |-> "init", id |-> 0, ret |-> FALSE, pre |-> NState]
    /\ IdleReg
    /\ IdleHub

NextAudioConcurrent ==
    \/ \E t \in AudioThreads : CallPlay(t)
    \/ \E t \in AudioThreads, path \in ConcPaths : CallLoad(t, path)
    \/ \E t \in AudioThreads : CallCleanup(t)
    \/ \E t \in AudioThreads : CleanAcquire(t)
    \/ \E t \in AudioThreads : CleanTest(t)
    \/ \E t \in AudioThreads : CleanTake(t)
    \/ \E t \in AudioThreads : CleanNull(t)
    \/ \E t \in AudioThreads : CleanUnlink(t)
    \/ \E t \in AudioThreads : LoadSet(t)
    \/ \E t \in AudioThreads : PlayCheck(t)
    \/ \E t \in AudioThreads : MakeSuffix(t)
    \/ \E t \in AudioThreads : MakeMkstemp(t)
    \/ \E t \in AudioThreads, io \in {"ok", "OSError"} : MakeCopy(t, io)
    \/ \E t \in AudioThreads : MakeStore(t)
    \/ \E t \in AudioThreads : TempSourceRead1(t)
    \/ \E t \in AudioThreads : TempSourceRead2(t)
    \/ \E t \in AudioThreads : TempSourceRead3(t)
    \/ \E t \in AudioThreads : MixerLoad(t)
    \/ \E t \in AudioThreads : MixerPlay(t)
    \/ \E t \in AudioThreads : PlayFinallyStep(t)

SpecAudioConcurrent == InitAudioConcurrent /\ [][NextAudioConcurrent]_vars

\* ===================================================== the paced copy's header
\* _make_paced_copy, lines 120-129: what is written to the temporary file.
\* A pace is given in hundredths; the float the code receives is the double
\* nearest to p/100.  params.framerate * pace is a product of doubles, rounded
\* to a 53-bit significand (ties to even), and int() drops its fraction.

SignificandBits == 53
MinRate == 500

IdleRest ==
    /\ IdleNarrative
    /\ n_call = [op |-> "init", id |-> 0, ret |-> FALSE, pre |-> NState]
    /\ IdleReg
    /\ IdleAudio
RestUnchanged == UNCHANGED <<narrVars, n_call, regVars, audioVars, concVars>>

RECURSIVE Pow2(_)
Pow2(k) == IF k = 0 THEN 1 ELSE 2 * Pow2(k - 1)
RECURSIVE Pow2Mod100(_)
Pow2Mod100(k) == IF k = 0 THEN 1 ELSE (2 * Pow2Mod100(k - 1)) % 100

\* for 0.5 <= p/100 < 2 the double nearest to p/100 is m / 2^k with m of 53
\* bits: k = 53 below 1.0, k = 52 from 1.0 on
ScaleBits(p) == IF p < 100 THEN SignificandBits ELSE SignificandBits - 1
\* 100 * m - p * 2^k: how far the double is from p/100, in units of
\* 1 / (100 * 2^k); m is p * 2^k / 100 rounded to the nearest integer
PaceError(p) ==
    LET r == (p * Pow2Mod100(ScaleBits(p))) % 100
    IN  IF r < 50 THEN -r ELSE 100 - r

\* the largest e with 2^e < n (n >= 2): just below n doubles are 2^(e-52) apart
RECURSIVE ExponentBelow(_)
ExponentBelow(n) == IF n <= 2 THEN 0 ELSE 1 + ExponentBelow((n + 1) \div 2)

\* int(framerate * pace).  The exact product is framerate * p / 100 plus
\* framerate * PaceError(p) / (100 * 2^k).  When framerate * p / 100 has a
\* fraction (at least 0.01) the rounding does not reach a whole number; when
\* it is a whole number n and the double is below p/100, the product rounds to
\* n only if it is within half a spacing of n, and to a double below n
\* otherwise.
IntOfProduct(framerate, p) ==
    LET whole == (framerate * p) \div 100
        d == PaceError(p)
    IN  IF (framerate * p) % 100 # 0 \/ d >= 0 THEN whole
        ELSE IF framerate * (-d) * Pow2(SignificandBits - ScaleBits(p))
                    <= 100 * Pow2(ExponentBelow(whole))
             THEN whole
             ELSE whole - 1

\* lines 121-129: the header and the frames of the copy
WritePacedCopy(params, pace) ==
    [nchannels |-> params.nchannels,
     sampwidth |-> params.sampwidth,
     framerate |-> Max2(MinRate, IntOfProduct(params.framerate, pace)),
     frames |-> params.frames]

\* source clips: the test's clip (mono, 16 bit, 44100 Hz) and others
SourceWavs ==
    {[nchannels |-> 1, sampwidth |-> 2, framerate |-> 44100, frames |-> <<0, 0, 0>>],
     [nchannels |-> 2, sampwidth |-> 2, framerate |-> 48000, frames |-> <<5, -5>>],
     [nchannels |-> 1, sampwidth |-> 1, framerate |-> 8000, frames |-> <<>>],
     [nchannels |-> 2, sampwidth |-> 3, framerate |-> 22050, frames |-> <<1>>],
     [nchannels |-> 1, sampwidth |-> 2, framerate |-> 550, frames |-> <<9, 9>>]}
PacePoints == 50..199

InitPacedCopy ==
    /\ p_in \in [params : SourceWavs, pace : PacePoints]
    /\ p_done = FALSE
    /\ p_out = <<>>
    /\ profiles = <<>>
    /\ s_call = <<>>
    /\ IdleRest

DoWritePacedCopy ==
    /\ ~p_done
    /\ p_done' = TRUE
    /\ p_out' = WritePacedCopy(p_in.params, p_in.pace)
    /\ UNCHANGED <<p_in, profiles, s_call>>
    /\ RestUnchanged

NextPacedCopy == DoWritePacedCopy

SpecPacedCopy == InitPacedCopy /\ [][NextPacedCopy]_vars

\* ============================================================ quiet hours
\* hub/accessibility_store.py, lines 167-241.  A Python value is a record: its
\* kind k, a number n in hundredths (0.45 is 45, 800 is 80000), the characters
\* s of a string, and the items l of a list.

VNone == [k |-> "none", n |-> 0, s |-> <<>>, l |-> <<>>]
VBool(b) == [k |-> "bool", n |-> IF b THEN 100 ELSE 0, s |-> <<>>, l |-> <<>>]
VNum(hundredths) == [k |-> "num", n |-> hundredths, s |-> <<>>, l |-> <<>>]
VInf == [k |-> "inf", n |-> 0, s |-> <<>>, l |-> <<>>]
VStr(chars) == [k |-> "str", n |-> 0, s |-> chars, l |-> <<>>]
VList(items) == [k |-> "list", n |-> 0, s |-> <<>>, l |-> items]
VMap == [k |-> "map", n |-> 0, s |-> <<>>, l |-> <<>>]

\* str.strip()
RECURSIVE LStrip(_)
LStrip(s) == IF Len(s) > 0 /\ Head(s) = " " THEN LStrip(Tail(s)) ELSE s
RECURSIVE RStrip(_)
RStrip(s) == IF Len(s) > 0 /\ s[Len(s)] = " " THEN RStrip(SubSeq(s, 1, Len(s) - 1)) ELSE s
Strip(s) == RStrip(LStrip(s))

\* str.split(sep, 1): one part when sep does not occur, else the text before
\* the first sep and the text after it
Split1(s, sep) ==
    LET hits == {i \in 1..Len(s) : s[i] = sep}
    IN  IF hits = {} THEN <<s>>
        ELSE LET i == CHOOSE h \in hits : \A g \in hits : h <= g
             IN  <<SubSeq(s, 1, i - 1), SubSeq(s, i + 1, Len(s))>>

Digits == <<"0", "1", "2", "3", "4", "5", "6", "7", "8", "9">>
IsDigit(c) == \E d \in 1..10 : Digits[d] = c
DigitValue(c) == (CHOOSE d \in 1..10 : Digits[d] = c) - 1
RECURSIVE DigitsValue(_)
DigitsValue(s) ==
    IF Len(s) = 0 THEN 0
    ELSE 10 * DigitsValue(SubSeq(s, 1, Len(s) - 1)) + DigitValue(s[Len(s)])

\* int(text): blanks around, an optional sign, then digits; anything else is
\* a ValueError (ok = FALSE)
ParseInt(s) ==
    LET t == Strip(s)
        signed == Len(t) > 0 /\ Head(t) \in {"+", "-"}
        body == IF signed THEN Tail(t) ELSE t
    IN  IF Len(body) = 0 \/ \E i \in 1..Len(body) : ~IsDigit(body[i])
        THEN [ok |-> FALSE, v |-> 0]
        ELSE [ok |-> TRUE,
              v |-> IF signed /\ Head(t) = "-" THEN -DigitsValue(body)
                    ELSE DigitsValue(body)]

\* _parse_time: None is ok = FALSE
NoTime == [ok |-> FALSE, hour |-> 0, minute |-> 0]
ParseTime(value) ==
    LET parts == Split1(value, ":")
    IN  IF Len(parts) # 2 THEN NoTime
        ELSE LET hour_i == ParseInt(parts[1])
                 minute_i == ParseInt(parts[2])
             IN  IF ~hour_i.ok \/ ~minute_i.ok THEN NoTime
                 ELSE IF ~(0 <= hour_i.v /\ hour_i.v < 24
                            /\ 0 <= minute_i.v /\ minute_i.v < 60) THEN NoTime
                 ELSE [ok |-> TRUE, hour |-> hour_i.v, minute |-> minute_i.v]

\* str(item) for the items of a list: a string is itself; the mapping is the
\* tests' {"bogus": "value"}
TBogus == <<"{", "'", "b", "o", "g", "u", "s", "'", ":", " ",
            "'", "v", "a", "l", "u", "e", "'", "}">>
StrOf(item) == IF item.k = "str" THEN item.s ELSE TBogus

\* _coerce_quiet_hour_entries: the entries, or ValueError
CoerceQuietHourEntries(value) ==
    LET candidates == IF value.k = "str" THEN <<value.s>>
                      ELSE [i \in 1..Len(value.l) |-> StrOf(value.l[i])]
        kept == SelectSeq(candidates, LAMBDA entry : Len(entry) > 0 /\ Len(Strip(entry)) > 0)
    IN  CASE value.k = "none" -> [raised |-> "none", entries |-> <<>>]
          [] value.k = "map" -> [raised |-> "ValueError", entries |-> <<>>]
          [] value.k \in {"str", "list"} ->
                [raised |-> "none", entries |-> [i \in 1..Len(kept) |-> Strip(kept[i])]]
          [] OTHER -> [raised |-> "ValueError", entries |-> <<>>]

\* the two parts of an entry, stripped (lines 185 and 232)
EntryParts(entry) ==
    LET parts == Split1(entry, "-") IN [i \in 1..Len(parts) |-> Strip(parts[i])]
EntryParses(entry) ==
    /\ Len(EntryParts(entry)) = 2
    /\ ParseTime(EntryParts(entry)[1]).ok
    /\ ParseTime(EntryParts(entry)[2]).ok

\* ensure_quiet_hours_valid: what it raises, and the entries its message lists
EnsureReportsFirst(value) ==
    LET c == CoerceQuietHourEntries(value)
        invalid == SelectSeq(c.entries, LAMBDA entry : ~EntryParses(entry))
    IN  IF c.raised # "none" THEN [raised |-> c.raised, invalid |-> <<>>]
        ELSE IF Len(invalid) = 0 THEN [raised |-> "none", invalid |-> <<>>]
        ELSE [raised |-> "ValueError", invalid |-> <<invalid[1]>>]
EnsureQuietHoursValid(value) ==
    LET c == CoerceQuietHourEntries(value)
        invalid == SelectSeq(c.entries, LAMBDA entry : ~EntryParses(entry))
    IN  IF c.raised # "none" THEN [raised |-> c.raised, invalid |-> <<>>]
        ELSE IF Len(invalid) = 0 THEN [raised |-> "none", invalid |-> <<>>]
        ELSE [raised |-> "ValueError", invalid |-> invalid]

\* _normalise_quiet_hours: the windows of the entries that parse
NormaliseQuietHours(value) ==
    LET c == CoerceQuietHourEntries(value)
        good == SelectSeq(c.entries, EntryParses)
    IN  IF c.raised # "none" THEN <<>>
        ELSE [i \in 1..Len(good) |->
                [start |-> ParseTime(EntryParts(good[i])[1]),
                 end |-> ParseTime(EntryParts(good[i])[2])]]

\* datetime.time values compare by hour, minute, second
SecondOfDay(t) == t.hour * 3600 + t.minute * 60
At(h, m, s) == h * 3600 + m * 60 + s

\* _quiet_hours_active
WindowActiveBothSides(w, current) ==
    IF SecondOfDay(w.start) <= SecondOfDay(w.end)
    THEN SecondOfDay(w.start) <= current /\ current < SecondOfDay(w.end)
    ELSE current >= SecondOfDay(w.start) /\ current < SecondOfDay(w.end)
WindowActive(w, current) ==
    IF SecondOfDay(w.start) <= SecondOfDay(w.end)
    THEN SecondOfDay(w.start) <= current /\ current < SecondOfDay(w.end)
    ELSE current >= SecondOfDay(w.start) \/ current < SecondOfDay(w.end)
QuietHoursActive(config_value, now) ==
    LET windows == NormaliseQuietHours(config_value)
    IN  \E i \in 1..Len(windows) : WindowActive(windows[i], now)

\* quiet_hours values to try: the strings of the tests and their neighbours
MaxEntries == 2
EMorning == <<"0", "8", ":", "0", "0", "-", "0", "9", ":", "0", "0">>
ENight == <<"2", "2", ":", "0", "0", "-", "0", "6", ":", "0", "0">>
EInvalid == <<"i", "n", "v", "a", "l", "i", "d">>
EEmpty == <<>>
EBlank == <<" ">>
ELoose == <<" ", "8", ":", "5", " ", "-", " ", "+", "9", ":", "0", "7", " ">>
EHour24 == <<"2", "4", ":", "0", "0", "-", "2", "5", ":", "0", "0">>
EMinute60 == <<"1", "0", ":", "6", "0", "-", "1", "1", ":", "0", "0">>
ENoDash == <<"0", "8", ":", "0", "0">>
EThree == <<"0", "8", ":", "0", "0", "-", "0", "9", ":", "0", "0", "-", "1", "0", ":", "0", "0">>
ESame == <<"1", "2", ":", "0", "0", "-", "1", "2", ":", "0", "0">>
ENoColon == <<"0", "8", "0", "0", "-", "0", "9", "0", "0">>
SampleEntries == {EMorning, ENight, EInvalid, EEmpty, EBlank, ELoose, EHour24,
                  EMinute60, ENoDash, EThree, ESame, ENoColon}
SampleItems == {VStr(e) : e \in SampleEntries} \cup {VMap}
RECURSIVE ListsUpTo(_, _)
ListsUpTo(items, len) ==
    IF len = 0 THEN {<<>>}
    ELSE LET shorter == ListsUpTo(items, len - 1)
         IN  shorter \cup {Append(l, i) : l \in shorter, i \in items}
QuietValues ==
    {VNone, VMap, VNum(500)} \cup {VStr(e) : e \in SampleEntries}
        \cup {VList(l) : l \in ListsUpTo(SampleItems, MaxEntries)}
NowPoints == {At(0, 0, 0), At(1, 0, 0), At(5, 59, 59), At(6, 0, 0), At(8, 0, 0),
              At(8, 30, 0), At(8, 59, 59), At(9, 0, 0), At(9, 7, 0), At(12, 0, 0),
              At(22, 0, 0), At(23, 59, 59)}

InitQuietHours ==
    /\ p_in \in [value : QuietValues, now : NowPoints]
    /\ p_done = FALSE
    /\ p_out = <<>>
    /\ profiles = <<>>
    /\ s_call = <<>>
    /\ IdleRest

DoEnsureQuietHoursValid ==
    /\ ~p_done
    /\ p_done' = TRUE
    /\ p_out' = [op |-> "ensure_quiet_hours_valid",
                 raised |-> EnsureQuietHoursValid(p_in.value).raised,
                 invalid |-> EnsureQuietHoursValid(p_in.value).invalid,
                 ret |-> FALSE]
    /\ UNCHANGED <<p_in, profiles, s_call>>
    /\ RestUnchanged

DoQuietHoursActive ==
    /\ ~p_done
    /\ p_done' = TRUE
    /\ p_out' = [op |-> "_quiet_hours_active", raised |-> "none", invalid |-> <<>>,
                 ret |-> QuietHoursActive(p_in.value, p_in.now)]
    /\ UNCHANGED <<p_in, profiles, s_call>>
    /\ RestUnchanged

NextQuietHours ==
    \/ DoEnsureQuietHoursValid
    \/ DoQuietHoursActive

SpecQuietHours == InitQuietHours /\ [][NextQuietHours]_vars

\* ========================================================= _build_node_payload
\* hub/accessibility_store.py, lines 93-164.  A settings mapping is a function
\* from the keys it holds to values.

VNan == [k |-> "nan", n |-> 0, s |-> <<>>, l |-> <<>>]

\* dict.get(key, default)
Get(d, key, default) == IF key \in DOMAIN d THEN d[key] ELSE default

\* bool(value)
Truthy(value) ==
    CASE value.k = "none" -> FALSE
      [] value.k \in {"bool", "num"} -> value.n # 0
      [] value.k = "str" -> Len(value.s) > 0
      [] value.k = "list" -> Len(value.l) > 0
      [] OTHER -> TRUE

\* int(value): a number loses its fraction (towards zero), a string is read as
\* ParseInt reads it, infinity is an OverflowError, NaN a ValueError, None and
\* containers a TypeError.  v is in units.
ToInt(value) ==
    CASE value.k \in {"num", "bool"} ->
            [raised |-> "none",
             v |-> IF value.n >= 0 THEN value.n \div 100 ELSE -((-value.n) \div 100)]
      [] value.k = "str" ->
            IF ParseInt(value.s).ok THEN [raised |-> "none", v |-> ParseInt(value.s).v]
            ELSE [raised |-> "ValueError", v |-> 0]
      [] value.k = "inf" -> [raised |-> "OverflowError", v |-> 0]
      [] value.k = "nan" -> [raised |-> "ValueError", v |-> 0]
      [] OTHER -> [raised |-> "TypeError", v |-> 0]

\* float(text) for decimal spellings with at most two places (the values
\* tried hold no exponent and no spelled-out inf or nan); v is in hundredths
ParseFloat(s) ==
    LET t == Strip(s)
        signed == Len(t) > 0 /\ Head(t) \in {"+", "-"}
        body == IF signed THEN Tail(t) ELSE t
        parts == Split1(body, ".")
        whole == parts[1]
        places == IF Len(parts) = 2 THEN parts[2] ELSE <<>>
        AllDigits(q) == \A i \in 1..Len(q) : IsDigit(q[i])
        magnitude == 100 * DigitsValue(whole)
                        + (IF Len(places) = 0 THEN 0
                           ELSE IF Len(places) = 1 THEN 10 * DigitsValue(places)
                           ELSE DigitsValue(SubSeq(places, 1, 2)))
    IN  IF ~AllDigits(whole) \/ ~AllDigits(places) \/ Len(whole) + Len(places) = 0
        THEN [ok |-> FALSE, v |-> 0]
        ELSE [ok |-> TRUE, v |-> IF signed /\ Head(t) = "-" THEN -magnitude ELSE magnitude]

\* float(value); special is "inf" or "nan" when the float is not finite
ToFloat(value) ==
    CASE value.k \in {"num", "bool"} -> [raised |-> "none", v |-> value.n, special |-> ""]
      [] value.k = "str" ->
            IF ParseFloat(value.s).ok
            THEN [raised |-> "none", v |-> ParseFloat(value.s).v, special |-> ""]
            ELSE [raised |-> "ValueError", v |-> 0, special |-> ""]
      [] value.k \in {"inf", "nan"} -> [raised |-> "none", v |-> 0, special |-> value.k]
      [] OTHER -> [raised |-> "TypeError", v |-> 0, special |-> ""]

\* _clamp_int: TypeError and ValueError are caught, any other exception
\* leaves the function
ClampInt(value, minimum, maximum) ==
    LET r == ToInt(value)
        number == IF r.raised \in {"TypeError", "ValueError"} THEN minimum ELSE r.v
    IN  IF r.raised \notin {"none", "TypeError", "ValueError"}
        THEN [raised |-> r.raised, v |-> 0]
        ELSE [raised |-> "none", v |-> Max2(minimum, Min2(maximum, number))]

\* _clamp_float, in hundredths.  min(maximum, number) keeps maximum unless
\* number < maximum, which is false for infinity and for NaN.
ClampFloat(value, minimum, maximum) ==
    LET r == ToFloat(value)
        number == IF r.raised \in {"TypeError", "ValueError"} THEN minimum ELSE r.v
    IN  IF r.raised \notin {"none", "TypeError", "ValueError"}
        THEN [raised |-> r.raised, v |-> 0]
        ELSE IF r.raised = "none" /\ r.special # ""
        THEN [raised |-> "none", v |-> maximum]
        ELSE [raised |-> "none", v |-> Max2(minimum, Min2(maximum, number))]

\* lines 116-120: the volume when the override gives none
BaseVolumeLoud(global_settings, quiet_mode) ==
    IF Truthy(Get(global_settings, "sensory_friendly", VNone)) THEN VNum(55) ELSE VNum(70)
BaseVolume(global_settings, quiet_mode) ==
    LET v0 == 70
        v1 == IF Truthy(Get(global_settings, "sensory_friendly", VNone))
              THEN Min2(v0, 55) ELSE v0
        v2 == IF quiet_mode THEN Min2(v1, 45) ELSE v1
    IN  VNum(v2)

\* lines 123-127: during quiet hours a light the override does not name is off
QuietDimsAll(node_override, key, lit, quiet_mode) ==
    IF quiet_mode THEN FALSE ELSE lit
QuietDims(node_override, key, lit, quiet_mode) ==
    IF quiet_mode /\ key \notin DOMAIN node_override THEN FALSE ELSE lit

\* the first exception raised, in the order the code evaluates
FirstRaised(seq) ==
    IF \A i \in 1..Len(seq) : seq[i] = "none" THEN "none"
    ELSE seq[CHOOSE i \in 1..Len(seq) :
                seq[i] # "none" /\ \A j \in 1..(i - 1) : seq[j] = "none"]

NoPayload == [volume |-> 0, captions |-> FALSE, visual_pulse |-> FALSE,
              proximity_glow |-> FALSE, mobility_buffer_ms |-> 0, repeat |-> 0,
              pace |-> 0, safety_limiter |-> FALSE]

\* _build_node_payload: the exception that leaves it, or the payload
BuildNodePayload(global_settings, node_override, quiet_mode) ==
    LET captions == Truthy(Get(node_override, "captions",
                                Get(global_settings, "captions", VBool(FALSE))))
        visual_pulse == Truthy(Get(node_override, "visual_pulse", VBool(FALSE)))
        proximity_glow == Truthy(Get(node_override, "proximity_glow", VBool(TRUE)))
        default_buffer == ClampInt(Get(global_settings, "mobility_buffer_ms", VNum(80000)),
                                   0, 60000)
        mobility_buffer_ms == ClampInt(Get(node_override, "mobility_buffer_ms",
                                           VNum(100 * default_buffer.v)), 0, 60000)
        repeat == ClampInt(Get(node_override, "repeat", VNum(0)), 0, 2)
        base_pace == IF Truthy(Get(global_settings, "sensory_friendly", VNone))
                     THEN VNum(90) ELSE VNum(100)
        pace == ClampFloat(Get(node_override, "pace", base_pace), 85, 115)
        safety_limiter == Truthy(Get(node_override, "safety_limiter",
                                     Get(global_settings, "safety_limiter", VBool(TRUE))))
        given == Get(node_override, "volume", VNone)
        volume == ClampFloat(IF given.k = "none"
                             THEN BaseVolume(global_settings, quiet_mode) ELSE given,
                             0, 100)
        raised == FirstRaised(<<default_buffer.raised, mobility_buffer_ms.raised,
                                repeat.raised, pace.raised, volume.raised>>)
    IN  IF raised # "none" THEN [raised |-> raised, payload |-> NoPayload]
        ELSE [raised |-> "none",
              payload |->
                [volume |-> volume.v,
                 captions |-> captions,
                 visual_pulse |-> QuietDims(node_override, "visual_pulse",
                                            visual_pulse, quiet_mode),
                 proximity_glow |-> QuietDims(node_override, "proximity_glow",
                                              proximity_glow, quiet_mode),
                 mobility_buffer_ms |-> Max2(0, mobility_buffer_ms.v),
                 repeat |-> repeat.v,
                 pace |-> pace.v,
                 safety_limiter |-> safety_limiter]]

\* settings to try
MaxOverrideKeys == 2
MaxGlobalKeys == 1
TSeven == <<"7">>
THalf == <<"0", ".", "5">>
TWord == <<"a", "b", "c">>
Flags == {VBool(TRUE), VBool(FALSE)}
OverrideFields ==
    [captions |-> Flags,
     visual_pulse |-> Flags,
     proximity_glow |-> Flags,
     safety_limiter |-> Flags,
     mobility_buffer_ms |-> {VNum(-500), VNum(120000), VNum(7000000), VStr(TWord), VInf},
     repeat |-> {VNum(-100), VNum(290), VNum(500), VStr(TSeven), VStr(TWord), VInf},
     pace |-> {VNum(50), VNum(95), VNum(200), VStr(TWord), VNan},
     volume |-> {VNum(-20), VNum(30), VNum(150), VStr(THalf), VStr(TWord), VNone}]
GlobalFields ==
    [captions |-> Flags,
     sensory_friendly |-> Flags,
     safety_limiter |-> Flags,
     mobility_buffer_ms |-> {VNum(-500), VNum(120000), VNum(7000000), VStr(TWord), VInf}]
\* the mappings that hold at most maxKeys of the fields
SettingsOf(fields, maxKeys) ==
    UNION {{f \in [keys -> UNION {fields[key] : key \in keys}] :
                \A key \in keys : f[key] \in fields[key]} :
           keys \in {ks \in SUBSET DOMAIN fields : Cardinality(ks) <= maxKeys}}

InitResolve ==
    /\ p_in \in [global_settings : SettingsOf(GlobalFields, MaxGlobalKeys),
                 node_override : SettingsOf(OverrideFields, MaxOverrideKeys),
                 quiet_mode : BOOLEAN]
    /\ p_done = FALSE
    /\ p_out = <<>>
    /\ profiles = <<>>
    /\ s_call = <<>>
    /\ IdleRest

DoBuildNodePayload ==
    /\ ~p_done
    /\ p_done' = TRUE
    /\ p_out' = BuildNodePayload(p_in.global_settings, p_in.node_override, p_in.quiet_mode)
    /\ UNCHANGED <<p_in, profiles, s_call>>
    /\ RestUnchanged

NextResolve == DoBuildNodePayload

SpecResolve == InitResolve /\ [][NextResolve]_vars

\* ============================================================ profile store
\* hub/accessibility_store.py, lines 15-68.  A profile document has the three
\* top-level keys load_profiles guarantees; global is a settings mapping,
\* presets maps a name to one, per_node_overrides maps a node id to one.  The
\* containers of the documents tried are mappings.

DefaultDoc == [global |-> <<>>, presets |-> <<>>, per_node_overrides |-> <<>>]

\* dict.update
Update(d, other) ==
    [key \in DOMAIN d \cup DOMAIN other |->
        IF key \in DOMAIN other THEN other[key] ELSE d[key]]
\* d[key] = value
Put(d, key, value) ==
    [k \in DOMAIN d \cup {key} |-> IF k = key THEN value ELSE d[k]]
\* d.pop(key, None)
Pop(d, key) == [k \in DOMAIN d \ {key} |-> d[k]]

\* load_profiles.  A file is absent, or holds what yaml.safe_load returns:
\* None (an empty file), a list, or a mapping with some of the three keys.
LoadProfiles(file) ==
    CASE ~file.exists -> [raised |-> "none", invalid |-> <<>>, doc |-> DefaultDoc]
      [] file.top = "list" -> [raised |-> "ValueError", invalid |-> <<>>, doc |-> DefaultDoc]
      [] OTHER ->
            LET data == [global |-> Get(file.doc, "global", <<>>),
                         presets |-> Get(file.doc, "presets", <<>>),
                         per_node_overrides |-> Get(file.doc, "per_node_overrides", <<>>)]
                valid == EnsureQuietHoursValid(Get(data.global, "quiet_hours", VNone))
            IN  IF valid.raised # "none"
                THEN [raised |-> valid.raised, invalid |-> valid.invalid, doc |-> DefaultDoc]
                ELSE [raised |-> "none", invalid |-> <<>>, doc |-> data]

\* apply_preset: KeyError for an unknown name, else the preset's values are
\* written over the global settings
ApplyPresetUnknownIsEmpty(doc, preset_name) ==
    [raised |-> "none",
     doc |-> [doc EXCEPT !.global = Update(@, Get(doc.presets, preset_name, <<>>))]]
ApplyPresetKeepsGlobal(doc, preset_name) ==
    IF preset_name \notin DOMAIN doc.presets
    THEN [raised |-> "KeyError", doc |-> doc]
    ELSE [raised |-> "none",
          doc |-> [doc EXCEPT !.global = Update(doc.presets[preset_name], @)]]
ApplyPreset(doc, preset_name) ==
    IF preset_name \notin DOMAIN doc.presets
    THEN [raised |-> "KeyError", doc |-> doc]
    ELSE [raised |-> "none",
          doc |-> [doc EXCEPT !.global = Update(@, doc.presets[preset_name])]]

\* set_per_node_override: values None and "" are dropped; what is left
\* replaces the node's entry, or removes it when nothing is left
Normalised(overrides) ==
    [key \in {k \in DOMAIN overrides : overrides[k] \notin {VNone, VStr(<<>>)}} |->
        overrides[key]]
SetPerNodeOverrideMerges(doc, node_id, overrides) ==
    IF DOMAIN Normalised(overrides) # {}
    THEN [doc EXCEPT !.per_node_overrides =
            Put(@, node_id, Update(Get(@, node_id, <<>>), Normalised(overrides)))]
    ELSE [doc EXCEPT !.per_node_overrides = Pop(@, node_id)]
SetPerNodeOverride(doc, node_id, overrides) ==
    IF DOMAIN Normalised(overrides) # {}
    THEN [doc EXCEPT !.per_node_overrides = Put(@, node_id, Normalised(overrides))]
    ELSE [doc EXCEPT !.per_node_overrides = Pop(@, node_id)]

\* files, preset names, node ids and overrides to try
MaxStoreKeys == 2
QMorning == VList(<<VStr(EMorning)>>)
QNight == VStr(ENight)
QInvalid == VList(<<VStr(EInvalid)>>)
FileMissing == [exists |-> FALSE, top |-> "none", doc |-> <<>>]
FileEmpty == [exists |-> TRUE, top |-> "none", doc |-> <<>>]
FileList == [exists |-> TRUE, top |-> "list", doc |-> <<>>]
\* the file of test_load_profiles_validates_quiet_hours
FileInvalid ==
    [exists |-> TRUE, top |-> "map",
     doc |-> ("global" :> ("quiet_hours" :> QInvalid))]
FileGlobalOnly ==
    [exists |-> TRUE, top |-> "map",
     doc |-> ("global" :> ("quiet_hours" :> QMorning @@ "captions" :> VBool(FALSE)))]
FileCalm ==
    [exists |-> TRUE, top |-> "map",
     doc |-> ("global" :> ("quiet_hours" :> QMorning)
              @@ "presets" :> ("calm" :> ("quiet_hours" :> QNight
                                           @@ "sensory_friendly" :> VBool(TRUE)))
              @@ "per_node_overrides" :> ("object1" :> ("visual_pulse" :> VBool(TRUE))))]
FileNight ==
    [exists |-> TRUE, top |-> "map",
     doc |-> ("global" :> ("captions" :> VBool(TRUE) @@ "safety_limiter" :> VBool(TRUE))
              @@ "presets" :> ("calm" :> ("captions" :> VBool(FALSE))
                               @@ "night" :> ("quiet_hours" :> QInvalid)))]
\* a file whose per_node_overrides names a node and gives it no field
FileEmptyEntry ==
    [exists |-> TRUE, top |-> "map",
     doc |-> ("per_node_overrides" :> ("object2" :> <<>>))]
Files == {FileMissing, FileEmpty, FileList, FileInvalid, FileGlobalOnly, FileCalm,
          FileNight, FileEmptyEntry}
PresetNames == {"calm", "night", "unknown"}
StoreNodes == {"object1", "object2"}
StoreOverrideFields ==
    [visual_pulse |-> {VBool(TRUE)},
     volume |-> {VNum(30), VNone, VStr(<<>>)},
     quiet_hours |-> {QMorning, QInvalid, VList(<<>>)}]
StoreOverrides == SettingsOf(StoreOverrideFields, MaxStoreKeys)

\* the hub starts with the document of a missing file
InitStore ==
    /\ profiles = DefaultDoc
    /\ s_call = [op |-> "init", raised |-> "none", invalid |-> <<>>,
                 preset_name |-> "", node_id |-> "", overrides |-> <<>>]
    /\ p_in = <<>>
    /\ p_done = FALSE
    /\ p_out = <<>>
    /\ IdleRest

\* a load that fails returns no document: the one held stays
DoLoadProfiles(file) ==
    /\ profiles' = IF LoadProfiles(file).raised = "none"
                   THEN LoadProfiles(file).doc ELSE profiles
    /\ s_call' = [op |-> "load_profiles", raised |-> LoadProfiles(file).raised,
                  invalid |-> LoadProfiles(file).invalid,
                  preset_name |-> "", node_id |-> "", overrides |-> <<>>]
    /\ p_out' = <<>>
    /\ UNCHANGED <<p_in, p_done>>
    /\ RestUnchanged

DoApplyPreset(preset_name) ==
    /\ profiles' = ApplyPreset(profiles, preset_name).doc
    /\ s_call' = [op |-> "apply_preset",
                  raised |-> ApplyPreset(profiles, preset_name).raised,
                  invalid |-> <<>>,
                  preset_name |-> preset_name, node_id |-> "", overrides |-> <<>>]
    /\ p_out' = <<>>
    /\ UNCHANGED <<p_in, p_done>>
    /\ RestUnchanged

DoSetPerNodeOverride(node_id, overrides) ==
    /\ profiles' = SetPerNodeOverride(profiles, node_id, overrides)
    /\ s_call' = [op |-> "set_per_node_override", raised |-> "none", invalid |-> <<>>,
                  preset_name |-> "", node_id |-> node_id, overrides |-> overrides]
    /\ p_out' = <<>>
    /\ UNCHANGED <<p_in, p_done>>
    /\ RestUnchanged

NextStore ==
    \/ \E file \in Files : DoLoadProfiles(file)
    \/ \E preset_name \in PresetNames : DoApplyPreset(preset_name)
    \/ \E node_id \in StoreNodes, overrides \in StoreOverrides :
          DoSetPerNodeOverride(node_id, overrides)

SpecStore == InitStore /\ [][NextStore]_vars

\* ------------------------------------------------- derive_runtime_payloads
\* hub/accessibility_store.py, lines 71-90 and 145-148.  nodes is the list of
\* the keys of the mapping passed, in its order; now is the second of the day
\* of the datetime passed.

\* _ensure_mapping: a value that is no mapping gives the empty mapping
EnsureMapping(candidate) ==
    IF DOMAIN candidate = DOMAIN VNone THEN <<>> ELSE candidate

Range(seq) == {seq[i] : i \in 1..Len(seq)}

\* lines 82-90: one payload per node, or the exception of the first node
\* whose payload raises; built[node_id] is what _build_node_payload gives
CollectPayloads(nodes, built) ==
    IF FirstRaised([i \in 1..Len(nodes) |-> built[nodes[i]].raised]) # "none"
    THEN [raised |-> FirstRaised([i \in 1..Len(nodes) |-> built[nodes[i]].raised]),
          payloads |-> <<>>]
    ELSE [raised |-> "none",
          payloads |-> [node_id \in Range(nodes) |-> built[node_id].payload]]
ResolveNodesNoOverride(global_settings, overrides, nodes, quiet_hours_active) ==
    CollectPayloads(nodes, [node_id \in Range(nodes) |->
                        BuildNodePayload(global_settings, <<>>, quiet_hours_active)])
ResolveNodes(global_settings, overrides, nodes, quiet_hours_active) ==
    CollectPayloads(nodes, [node_id \in Range(nodes) |->
                        BuildNodePayload(global_settings,
                                         EnsureMapping(Get(overrides, node_id, VNone)),
                                         quiet_hours_active)])

\* lines 78-80, then the loop
WithEarlierResult(fresh) ==
    IF p_done /\ fresh.raised = "none" /\ p_in.node_id \in DOMAIN fresh.payloads
    THEN [fresh EXCEPT !.payloads[p_in.node_id] = p_in.payload]
    ELSE fresh
DeriveFromEarlierResult(doc, nodes, now) ==
    WithEarlierResult(ResolveNodes(EnsureMapping(doc.global),
                         EnsureMapping(doc.per_node_overrides),
                         nodes,
                         QuietHoursActive(Get(EnsureMapping(doc.global), "quiet_hours", VNone),
                                          now)))
DeriveRuntimePayloads(doc, nodes, now) ==
    ResolveNodes(EnsureMapping(doc.global),
                 EnsureMapping(doc.per_node_overrides),
                 nodes,
                 QuietHoursActive(Get(EnsureMapping(doc.global), "quiet_hours", VNone), now))

\* files, overrides, node lists and instants to try
MaxCallNodes == 2
DeriveFiles == {FileCalm}
DerivePresets == {"calm", "unknown"}
DeriveOverrides ==
    {<<>>, "volume" :> VNum(30), "repeat" :> VInf}
NodeLists ==
    {l \in ListsUpTo(StoreNodes, MaxCallNodes) :
        \A i, j \in 1..Len(l) : l[i] = l[j] => i = j}
DeriveNows == {At(8, 30, 0), At(23, 59, 59)}

\* p_out is what the last call returned to its caller when that call was
\* derive_runtime_payloads; p_in keeps, of the first call that returned
\* payloads, what the first node was resolved from and to.  The function
\* writes nothing to the document it reads.
DeriveReturns(nodes, now, result, verdict) ==
    /\ p_out' = [nodes |-> nodes, now |-> now, raised |-> result.raised,
                 payloads |-> result.payloads]
    /\ s_call' = [op |-> "derive_runtime_payloads", raised |-> result.raised,
                  invalid |-> <<>>, preset_name |-> "", node_id |-> "",
                  overrides |-> <<>>]
    /\ IF ~p_done /\ result.raised = "none" /\ nodes # <<>>
       THEN /\ p_done' = TRUE
            /\ p_in' = [node_id |-> Head(nodes),
                        global_settings |-> profiles.global,
                        node_override |->
                            Get(profiles.per_node_overrides, Head(nodes), <<>>),
                        quiet_mode |-> verdict,
                        payload |-> result.payloads[Head(nodes)]]
       ELSE UNCHANGED <<p_in, p_done>>
    /\ UNCHANGED profiles
    /\ RestUnchanged
DoDeriveRuntimePayloads(nodes, now) ==
    DeriveReturns(nodes, now, DeriveRuntimePayloads(profiles, nodes, now),
            QuietHoursActive(Get(profiles.global, "quiet_hours", VNone), now))

NextDerive ==
    \/ \E file \in DeriveFiles : DoLoadProfiles(file)
    \/ \E preset_name \in DerivePresets : DoApplyPreset(preset_name)
    \/ \E node_id \in StoreNodes, overrides \in DeriveOverrides :
          DoSetPerNodeOverride(node_id, overrides)
    \/ \E nodes \in NodeLists, now \in DeriveNows : DoDeriveRuntimePayloads(nodes, now)

SpecDerive == InitStore /\ [][NextDerive]_vars

\* ================================================================== claims

RegAllReturned == \A t \in RegThreads : reg_pc[t] = "done"
RegTrueCalls(i) == {t \in RegThreads : reg_arg[t] = i /\ reg_ret[t] = "true"}
RegCalledIds == {reg_arg[t] : t \in RegThreads}

\* C1: once all concurrent register_trigger calls have returned, each distinct
\* id was reported newly recorded (True) by exactly one call, every registered
\* id is in the trigger set, and unlocked holds iff the number of distinct ids
\* is at least required_fragments.
C1_ConcurrentRegistrationAtomic ==
    RegAllReturned =>
        /\ \A i \in RegCalledIds : Cardinality(RegTrueCalls(i)) = 1
        /\ RegCalledIds \subseteq triggered_whispers
        /\ unlocked = (Cardinality(RegCalledIds) >= required_fragments)

\* C2: unlocked turns true only in a register_trigger call that records a new
\* id and brings the distinct-trigger count to required_fragments; it stays
\* true until reset; reset yields the initial state.
C2_UnlockOnlyAtThreshold ==
    /\ (~n_call.pre.unlocked /\ unlocked) =>
          /\ n_call.op = "register_trigger"
          /\ n_call.ret
          /\ n_call.id \notin n_call.pre.triggered_whispers
          /\ Cardinality(triggered_whispers) = required_fragments
    /\ (n_call.pre.unlocked /\ n_call.op # "reset") => unlocked
    /\ n_call.op = "reset" =>
          /\ triggered_whispers = {}
          /\ ~unlocked
          /\ required_fragments = n_call.pre.required_fragments

\* C2 as amended: as C2, with the count brought to at least required_fragments:
\* to exactly required_fragments when required_fragments >= 1, and to 1 (the
\* first new registration) when required_fragments <= 0.
C2_UnlockAtOrAboveThreshold ==
    /\ (~n_call.pre.unlocked /\ unlocked) =>
          /\ n_call.op = "register_trigger"
          /\ n_call.ret
          /\ n_call.id \notin n_call.pre.triggered_whispers
          /\ Cardinality(triggered_whispers) >= required_fragments
          /\ required_fragments >= 1 =>
                Cardinality(triggered_whispers) = required_fragments
          /\ required_fragments <= 0 => Cardinality(triggered_whispers) = 1
    /\ (n_call.pre.unlocked /\ n_call.op # "reset") => unlocked
    /\ n_call.op = "reset" =>
          /\ triggered_whispers = {}
          /\ ~unlocked
          /\ required_fragments = n_call.pre.required_fragments

C2_Witness ==
    /\ n_call.op = "register_trigger"
    /\ ~n_call.pre.unlocked
    /\ unlocked
    /\ required_fragments = 2

\* C3: registering an id already in the trigger set returns False and leaves
\* the set, the flag and the threshold unchanged; registering a new id returns
\* True and adds exactly that id.
C3_RegisterIdempotent ==
    n_call.op = "register_trigger" =>
        /\ required_fragments = n_call.pre.required_fragments
        /\ IF n_call.id \in n_call.pre.triggered_whispers
           THEN /\ ~n_call.ret
                /\ triggered_whispers = n_call.pre.triggered_whispers
                /\ unlocked = n_call.pre.unlocked
           ELSE /\ n_call.ret
                /\ triggered_whispers = n_call.pre.triggered_whispers \cup {n_call.id}

C3_Witness ==
    /\ n_call.op = "register_trigger"
    /\ n_call.id \in n_call.pre.triggered_whispers
    /\ ~n_call.ret
    /\ Cardinality(triggered_whispers) = 2

\* C4: in every state reachable by register_trigger and reset, for any integer
\* required_fragments, unlocked equals (distinct triggers >= required_fragments).
C4_UnlockedDerived ==
    unlocked = (Cardinality(triggered_whispers) >= required_fragments)

\* C4 as amended: the same, for required_fragments >= 1.
C4_UnlockedDerivedPositive ==
    required_fragments >= 1 =>
        unlocked = (Cardinality(triggered_whispers) >= required_fragments)

C4_Witness ==
    /\ required_fragments = 2
    /\ unlocked
    /\ Cardinality(triggered_whispers) = 3
    /\ n_call.op = "register_trigger"

\* ------------------------------------------------ AudioPlayer, sequential
HandleSet == IF temp_audio = NoTemp THEN {} ELSE {temp_audio}
EventIndices(what, n) ==
    {k \in 1..Len(a_events) : a_events[k] = [ev |-> what, tmp |-> n]}
Made == {n \in 1..MaxTemp + 1 : EventIndices("mkstemp", n) # {}}

\* C6: after each operation of a sequential run at most one paced temporary
\* file made by the player is on disk, and it is the one the handle refers to.
C6_SingleSlot ==
    /\ temp_files \subseteq HandleSet
    /\ Cardinality(temp_files) <= 1

\* C7: a paced copy that play() produced is handed to the backend (load, then
\* play) before it is unlinked, and when play() returns its file is deleted and
\* the handle is None, also when the backend's load or play raises.
C7_PacedCopyPlayedThenDeleted ==
    (a_call.op = "play" /\ a_call.io = "ok") =>
        \A n \in Made :
            /\ \E i \in EventIndices("mixer.load", n), j \in EventIndices("unlink", n) :
                  /\ i < j
                  /\ \A k \in EventIndices("mixer.play", n) : i < k /\ k < j
            /\ n \notin temp_files
            /\ temp_audio = NoTemp
            /\ a_raised = "none"

C7_Witness ==
    /\ a_call.op = "play"
    /\ a_call.io = "ok"
    /\ \E n \in 1..MaxTemp :
          a_events = <<[ev |-> "_make_paced_copy", tmp |-> NoTemp],
                       [ev |-> "mkstemp", tmp |-> n], [ev |-> "mixer.load", tmp |-> n],
                       [ev |-> "unlink", tmp |-> n]>>

EngineUnchanged ==
    UNCHANGED <<loaded_path, temp_audio, safety_limit, mixer_available,
                temp_files, next_temp,
                mixer_music, mixer_loops, mixer_playing, mixer_volume>>

C9_FailedCopyLeavesNothing ==
    (a_call.op \in {"play", "_make_paced_copy"} /\ a_call.io # "ok" /\ Made # {}) =>
        /\ a_raised = "none"
        /\ Made \cap temp_files = {}
        /\ temp_audio = NoTemp
        /\ a_call.op = "_make_paced_copy" => a_call.ret = NoTemp
        /\ a_call.op = "play" => EventIndices("mixer.load", NoTemp) # {}

\* the part of C9 the code does provide: the failures line 130 names
C9_NamedFailuresLeaveNothing ==
    (a_call.op \in {"play", "_make_paced_copy"}
        /\ a_call.io \in {"OSError", "wave.Error"} /\ Made # {}) =>
        /\ a_raised = "none"
        /\ Made \cap temp_files = {}
        /\ temp_audio = NoTemp
        /\ a_call.op = "_make_paced_copy" => a_call.ret = NoTemp
        /\ a_call.op = "play" => EventIndices("mixer.load", NoTemp) # {}

\* C10: without a backend set_volume, play and stop raise nothing and change
\* no state of the player (no temporary file, no backend call); without a
\* loaded source play raises nothing, calls no backend operation and creates
\* no temporary file.
C10_DegradedIsNoOp ==
    [][/\ (~mixer_available /\ a_call'.op \in {"set_volume", "play", "stop"}) =>
             (a_raised' = "none" /\ a_events' = <<>> /\ EngineUnchanged)
       /\ (loaded_path = "none" /\ a_call'.op = "play") =>
             (a_raised' = "none" /\ a_events' = <<>> /\ EngineUnchanged)
      ]_vars

C10_Witness ==
    /\ a_call.op = "play"
    /\ a_call.pace = 90
    /\ ~mixer_available
    /\ loaded_path = "clip.wav"
    /\ a_events = <<>>

\* ------------------------------------------------ AudioPlayer, concurrent

\* C5: when play() runs concurrently with load() or another cleanup-triggering
\* call, play never hands the backend a paced-asset path whose file a
\* concurrent caller has already deleted (no use of the path after the deleter
\* has set the handle to None and unlinked the file).
C5_NoUseAfterConcurrentDelete ==
    [][\A t \in AudioThreads :
          (a_pc[t] = "pl_mixer_load" /\ a_pc'[t] # "pl_mixer_load"
              /\ a_target[t].tmp # NoTemp) =>
                a_target[t].tmp \in temp_files
      ]_vars

\* ------------------------------------------------ AudioPlayer, volume
Clamp01(x) == IF x < 0 THEN 0 ELSE IF x > 100 THEN 100 ELSE x

\* C11: every volume set_volume passes to the backend equals
\* min(clamp(requested, 0, 1), L), where L is the argument of the most recent
\* set_safety_limit clamped to [0, 1], and 1.0 if it was never called; so no
\* volume above the safety limit reaches the backend.  (Hundredths: 1.0 = 100.)
C11_VolumeWithinSafetyLimit ==
    /\ safety_limit = 100
    /\ [][/\ IF a_call'.op = "set_safety_limit"
             THEN safety_limit' = Clamp01(a_call'.pace)
             ELSE safety_limit' = safety_limit
          /\ (a_call'.op = "set_volume" /\ a_events' # <<>>) =>
                /\ a_events' = <<[ev |-> "mixer.set_volume", tmp |-> 0]>>
                /\ mixer_volume' = (IF Clamp01(a_call'.pace) < safety_limit
                                    THEN Clamp01(a_call'.pace) ELSE safety_limit)
                /\ mixer_volume' <= safety_limit
          /\ a_call'.op # "set_volume" =>
                (mixer_volume' = mixer_volume /\ EventIndices("mixer.set_volume", 0)' = {})
         ]_vars

C11_Witness ==
    /\ a_call.op = "set_volume"
    /\ a_call.pace = 130
    /\ safety_limit = 40
    /\ mixer_volume = 40
    /\ a_events = <<[ev |-> "mixer.set_volume", tmp |-> 0]>>

\* ------------------------------------------------ AudioPlayer, pacing
Attempted == EventIndices("_make_paced_copy", NoTemp) # {}

\* C12: with a source loaded and the backend available, play attempts to
\* produce a paced copy if and only if |pace - 1.0| >= 0.02; when production
\* succeeds the backend receives the paced copy's path; when the source's
\* suffix is not .wav the attempt returns no path, creates no temporary file,
\* and the backend receives the unmodified source.
C12_PacedCopyDecision ==
    /\ (a_call.op = "play" /\ loaded_path # "none" /\ mixer_available) =>
          /\ Attempted <=> (a_call.pace - 100 >= 2 \/ 100 - a_call.pace >= 2)
          /\ (Attempted /\ loaded_path \in {"clip.wav"} /\ a_call.io = "ok") =>
                /\ Cardinality(Made) = 1
                /\ \A n \in Made : EventIndices("mixer.load", n) # {}
                /\ EventIndices("mixer.load", NoTemp) = {}
          /\ (Attempted /\ loaded_path = "clip.mp3") =>
                /\ Made = {}
                /\ a_raised = "none"
                /\ \A k \in 1..Len(a_events) :
                      a_events[k].ev \in {"_make_paced_copy", "mixer.load", "mixer.play"}
                /\ EventIndices("mixer.load", NoTemp) # {}
          /\ ~Attempted =>
                (Made = {} /\ EventIndices("mixer.load", NoTemp) # {})
    /\ (a_call.op = "_make_paced_copy" /\ loaded_path = "clip.mp3") =>
          /\ a_call.ret = NoTemp
          /\ a_events = <<[ev |-> "_make_paced_copy", tmp |-> NoTemp]>>

C12_Witness ==
    /\ a_call.op = "play"
    /\ a_call.pace = 102
    /\ loaded_path = "clip.wav"
    /\ \E n \in 1..MaxTemp :
          a_events = <<[ev |-> "_make_paced_copy", tmp |-> NoTemp],
                       [ev |-> "mkstemp", tmp |-> n], [ev |-> "mixer.load", tmp |-> n],
                       [ev |-> "mixer.play", tmp |-> n], [ev |-> "unlink", tmp |-> n]>>

C12_WitnessUnsupported ==
    /\ a_call.op = "play"
    /\ a_call.pace = 90
    /\ loaded_path = "clip.mp3"
    /\ a_events = <<[ev |-> "_make_paced_copy", tmp |-> NoTemp],
                    [ev |-> "mixer.load", tmp |-> NoTemp],
                    [ev |-> "mixer.play", tmp |-> NoTemp]>>

\* ------------------------------------------------ the paced copy's header

\* C13: the paced copy has the frame rate max(500, floor(source_rate * pace)),
\* the channel count and sample width of the source, and identical frame
\* data; a 44100 Hz source at pace 0.9 gives 39690 Hz.
C13_PacedRateIsFloor ==
    p_done =>
        /\ p_out.framerate =
              (IF (p_in.params.framerate * p_in.pace) \div 100 < 500 THEN 500
               ELSE (p_in.params.framerate * p_in.pace) \div 100)
        /\ p_out.nchannels = p_in.params.nchannels
        /\ p_out.sampwidth = p_in.params.sampwidth
        /\ p_out.frames = p_in.params.frames
        /\ (p_in.params.framerate = 44100 /\ p_in.pace = 90) => p_out.framerate = 39690

\* what the code does provide: the rate is that floor or one below it, never
\* under 500, and everything but the rate is the source's
C13_PacedRateWithinOne ==
    p_done =>
        LET floorRate == (p_in.params.framerate * p_in.pace) \div 100
        IN  /\ p_out.framerate >= 500
            /\ p_out.framerate \in {floorRate, floorRate - 1, 500}
            /\ (p_out.framerate = 500) => floorRate <= 500
            /\ (p_in.params.framerate * p_in.pace) % 100 # 0 => p_out.framerate >= floorRate
            /\ p_out.nchannels = p_in.params.nchannels
            /\ p_out.sampwidth = p_in.params.sampwidth
            /\ p_out.frames = p_in.params.frames
            /\ (p_in.params.framerate = 44100 /\ p_in.pace = 90) => p_out.framerate = 39690

\* ------------------------------------------------------------ quiet hours
\* the entries a quiet_hours value offers: the string itself, or the items
\* of the list as text
OfferedEntries(value) ==
    CASE value.k = "str" -> <<value.s>>
      [] value.k = "list" -> [i \in 1..Len(value.l) |-> StrOf(value.l[i])]
      [] OTHER -> <<>>
IsBlank(entry) == \A i \in 1..Len(entry) : entry[i] = " "

\* "HH:MM-HH:MM" to the letter: two digits, a colon, two digits, twice
TwoDigits(entry, i, limit) ==
    /\ IsDigit(entry[i])
    /\ IsDigit(entry[i + 1])
    /\ 10 * DigitValue(entry[i]) + DigitValue(entry[i + 1]) < limit
IsHHMMPair(entry) ==
    /\ Len(entry) = 11
    /\ entry[3] = ":"
    /\ entry[6] = "-"
    /\ entry[9] = ":"
    /\ TwoDigits(entry, 1, 24)
    /\ TwoDigits(entry, 4, 60)
    /\ TwoDigits(entry, 7, 24)
    /\ TwoDigits(entry, 10, 60)

ReadsAsNumberBelow(text, limit) ==
    \E first \in 1..Len(text), last \in 1..Len(text) :
        /\ first <= last
        /\ \A i \in first..last : IsDigit(text[i])
        /\ \A i \in (last + 1)..Len(text) : text[i] = " "
        /\ \/ /\ \A i \in 1..(first - 1) : text[i] = " "
              /\ DigitsValue(SubSeq(text, first, last)) < limit
           \/ /\ first > 1
              /\ text[first - 1] = "+"
              /\ \A i \in 1..(first - 2) : text[i] = " "
              /\ DigitsValue(SubSeq(text, first, last)) < limit
           \/ /\ first > 1
              /\ text[first - 1] = "-"
              /\ \A i \in 1..(first - 2) : text[i] = " "
              /\ DigitsValue(SubSeq(text, first, last)) = 0
ReadsAsTime(text) ==
    \E c \in 1..Len(text) :
        /\ text[c] = ":"
        /\ \A i \in 1..(c - 1) : text[i] # ":"
        /\ ReadsAsNumberBelow(SubSeq(text, 1, c - 1), 24)
        /\ ReadsAsNumberBelow(SubSeq(text, c + 1, Len(text)), 60)
ReadsAsWindow(entry) ==
    \E d \in 1..Len(entry) :
        /\ entry[d] = "-"
        /\ \A i \in 1..(d - 1) : entry[i] # "-"
        /\ ReadsAsTime(SubSeq(entry, 1, d - 1))
        /\ ReadsAsTime(SubSeq(entry, d + 1, Len(entry)))

C16_ActiveIffSomeWindowMatches ==
    (p_done /\ p_out.op = "_quiet_hours_active") =>
        LET offered == OfferedEntries(p_in.value)
            parsing == SelectSeq(offered, LAMBDA e : ~IsBlank(e) /\ ReadsAsWindow(e))
            windows == NormaliseQuietHours(p_in.value)
            Minutes(t) == 60 * t.hour + t.minute
            Matches(w) ==
                IF Minutes(w.start) <= Minutes(w.end)
                THEN 60 * Minutes(w.start) <= p_in.now /\ p_in.now < 60 * Minutes(w.end)
                ELSE p_in.now >= 60 * Minutes(w.start) \/ p_in.now < 60 * Minutes(w.end)
        IN  /\ p_out.raised = "none"
            /\ Len(windows) = Len(parsing)
            /\ p_out.ret <=> \E i \in 1..Len(windows) : Matches(windows[i])

C16_Witness ==
    /\ p_done
    /\ p_out.op = "_quiet_hours_active"
    /\ p_in.value = VList(<<VStr(EInvalid), VStr(ENight)>>)
    /\ p_in.now = At(1, 0, 0)
    /\ p_out.ret

\* ------------------------------------------------------ _build_node_payload
Resolved == p_done /\ p_out.raised = "none"
Override == p_in.node_override
Global == p_in.global_settings
Has(d, key) == key \in DOMAIN d

\* C17: for visual_pulse and proximity_glow, a field the override contains is
\* carried into the payload whether or not quiet hours are active; a field it
\* does not contain is false / true outside quiet hours and false / false
\* during quiet hours.
C17_ExplicitLightsSurviveQuietHours ==
    Resolved =>
        /\ Has(Override, "visual_pulse") =>
              (p_out.payload.visual_pulse <=> Override["visual_pulse"] = VBool(TRUE))
        /\ Has(Override, "proximity_glow") =>
              (p_out.payload.proximity_glow <=> Override["proximity_glow"] = VBool(TRUE))
        /\ ~Has(Override, "visual_pulse") => ~p_out.payload.visual_pulse
        /\ ~Has(Override, "proximity_glow") =>
              (p_out.payload.proximity_glow <=> ~p_in.quiet_mode)

C17_Witness ==
    /\ Resolved
    /\ p_in.quiet_mode
    /\ Has(Override, "visual_pulse")
    /\ Override["visual_pulse"] = VBool(TRUE)
    /\ p_out.payload.visual_pulse
    /\ ~Has(Override, "proximity_glow")
    /\ ~p_out.payload.proximity_glow

\* C18: a volume the override supplies is used, clamped to [0, 1], whatever
\* quiet hours and sensory_friendly say; without one the volume is 0.7, 0.55
\* when only sensory_friendly applies, and 0.45 whenever quiet hours are
\* active.  (An override whose volume is None supplies none.)
C18_VolumePolicy ==
    Resolved =>
        LET supplied == Has(Override, "volume") /\ Override["volume"].k # "none"
            sensory == Has(Global, "sensory_friendly")
                          /\ Global["sensory_friendly"] = VBool(TRUE)
        IN  /\ (supplied /\ Override["volume"].k = "num") =>
                  p_out.payload.volume = Clamp01(Override["volume"].n)
            /\ (supplied /\ Override["volume"] = VStr(THalf)) =>
                  p_out.payload.volume = 50
            /\ ~supplied =>
                  p_out.payload.volume =
                      (IF p_in.quiet_mode THEN 45 ELSE IF sensory THEN 55 ELSE 70)

C18_Witness ==
    /\ Resolved
    /\ p_in.quiet_mode
    /\ Has(Global, "sensory_friendly")
    /\ Global["sensory_friendly"] = VBool(TRUE)
    /\ ~Has(Override, "volume")
    /\ p_out.payload.volume = 45

C18_WitnessExplicit ==
    /\ Resolved
    /\ p_in.quiet_mode
    /\ Has(Override, "volume")
    /\ Override["volume"] = VNum(150)
    /\ p_out.payload.volume = 100

\* a value that is no number and no spelling of one
NonNumeric(value) == value = VStr(TWord)
\* the global mobility_buffer_ms, clamped, or 800 when there is none
ClaimedBuffer ==
    IF ~Has(Global, "mobility_buffer_ms") \/ NonNumeric(Global["mobility_buffer_ms"])
    THEN 800
    ELSE IF Global["mobility_buffer_ms"].n < 0 THEN 0
    ELSE IF Global["mobility_buffer_ms"].n > 6000000 THEN 60000
    ELSE Global["mobility_buffer_ms"].n \div 100
ClaimedBaseVolume ==
    IF p_in.quiet_mode THEN 45
    ELSE IF Has(Global, "sensory_friendly") /\ Global["sensory_friendly"] = VBool(TRUE)
    THEN 55 ELSE 70
ClaimedBasePace ==
    IF Has(Global, "sensory_friendly") /\ Global["sensory_friendly"] = VBool(TRUE)
    THEN 90 ELSE 100
SomeNonNumeric ==
    \/ \E key \in {"mobility_buffer_ms", "repeat", "pace", "volume"} :
          Has(Override, key) /\ NonNumeric(Override[key])
    \/ Has(Global, "mobility_buffer_ms") /\ NonNumeric(Global["mobility_buffer_ms"])
HoldsInfinity ==
    \/ \E key \in {"mobility_buffer_ms", "repeat"} :
          Has(Override, key) /\ Override[key] = VInf
    \/ Has(Global, "mobility_buffer_ms") /\ Global["mobility_buffer_ms"] = VInf

\* C19: when a numeric field holds a non-numeric value, resolve raises no
\* error and the payload field takes the stated default: the clamped global
\* value or 800 for mobility_buffer_ms, 0 for repeat, 0.9 / 1.0 for pace, and
\* the computed base volume for volume.
C19_NonNumericFallsBackToDefault ==
    (p_done /\ SomeNonNumeric /\ ~HoldsInfinity) =>
        /\ p_out.raised = "none"
        /\ (Has(Override, "mobility_buffer_ms") /\ NonNumeric(Override["mobility_buffer_ms"])) =>
              p_out.payload.mobility_buffer_ms = ClaimedBuffer
        /\ (~Has(Override, "mobility_buffer_ms") /\ Has(Global, "mobility_buffer_ms")
                /\ NonNumeric(Global["mobility_buffer_ms"])) =>
              p_out.payload.mobility_buffer_ms = 800
        /\ (Has(Override, "repeat") /\ NonNumeric(Override["repeat"])) =>
              p_out.payload.repeat = 0
        /\ (Has(Override, "pace") /\ NonNumeric(Override["pace"])) =>
              p_out.payload.pace = ClaimedBasePace
        /\ (Has(Override, "volume") /\ NonNumeric(Override["volume"])) =>
              p_out.payload.volume = ClaimedBaseVolume

\* what the code does provide: no error, and the field takes the lower bound
\* of its range
C19_NonNumericFallsBackToMinimum ==
    (p_done /\ SomeNonNumeric /\ ~HoldsInfinity) =>
        /\ p_out.raised = "none"
        /\ (Has(Override, "mobility_buffer_ms") /\ NonNumeric(Override["mobility_buffer_ms"])) =>
              p_out.payload.mobility_buffer_ms = 0
        /\ (~Has(Override, "mobility_buffer_ms") /\ Has(Global, "mobility_buffer_ms")
                /\ NonNumeric(Global["mobility_buffer_ms"])) =>
              p_out.payload.mobility_buffer_ms = 0
        /\ (Has(Override, "repeat") /\ NonNumeric(Override["repeat"])) =>
              p_out.payload.repeat = 0
        /\ (Has(Override, "pace") /\ NonNumeric(Override["pace"])) =>
              p_out.payload.pace = 85
        /\ (Has(Override, "volume") /\ NonNumeric(Override["volume"])) =>
              p_out.payload.volume = 0

InBounds(payload) ==
    /\ 0 <= payload.volume /\ payload.volume <= 100
    /\ 85 <= payload.pace /\ payload.pace <= 115
    /\ 0 <= payload.repeat /\ payload.repeat <= 2
    /\ 0 <= payload.mobility_buffer_ms /\ payload.mobility_buffer_ms <= 60000
NearestBound(x, low, high) == IF x < low THEN low ELSE IF x > high THEN high ELSE x
OutOfRangePulledIn(payload) ==
    /\ (Has(Override, "volume") /\ Override["volume"].k = "num") =>
          payload.volume = NearestBound(Override["volume"].n, 0, 100)
    /\ (Has(Override, "pace") /\ Override["pace"].k = "num") =>
          payload.pace = NearestBound(Override["pace"].n, 85, 115)
    /\ (Has(Override, "repeat") /\ Override["repeat"].k = "num") =>
          payload.repeat = NearestBound(ToInt(Override["repeat"]).v, 0, 2)
    /\ (Has(Override, "mobility_buffer_ms") /\ Override["mobility_buffer_ms"].k = "num") =>
          payload.mobility_buffer_ms =
              NearestBound(ToInt(Override["mobility_buffer_ms"]).v, 0, 60000)
ClampsIdempotent ==
    /\ \A key \in {"repeat", "mobility_buffer_ms"} :
          (Has(Override, key) /\ ClampInt(Override[key], 0, 2).raised = "none") =>
              /\ ClampInt(VNum(100 * ClampInt(Override[key], 0, 2).v), 0, 2)
                    = ClampInt(Override[key], 0, 2)
              /\ ClampInt(VNum(100 * ClampInt(Override[key], 0, 60000).v), 0, 60000)
                    = ClampInt(Override[key], 0, 60000)
    /\ \A key \in {"pace", "volume"} :
          Has(Override, key) =>
              /\ ClampFloat(VNum(ClampFloat(Override[key], 85, 115).v), 85, 115)
                    = ClampFloat(Override[key], 85, 115)
              /\ ClampFloat(VNum(ClampFloat(Override[key], 0, 100).v), 0, 100)
                    = ClampFloat(Override[key], 0, 100)

\* C20: for every global settings, node override and quiet-hours verdict,
\* out-of-range values included, the payload satisfies 0 <= volume <= 1,
\* 0.85 <= pace <= 1.15, 0 <= repeat <= 2, 0 <= mobility_buffer_ms <= 60000;
\* an out-of-range numeric override is replaced by the nearest bound, never
\* rejected; clamping a clamped value changes nothing.
C20_PayloadWithinBounds ==
    p_done =>
        /\ p_out.raised = "none"
        /\ InBounds(p_out.payload)
        /\ OutOfRangePulledIn(p_out.payload)
        /\ ClampsIdempotent

\* what the code does provide: a payload that is returned is within the
\* bounds, and only an infinite mobility_buffer_ms or repeat is rejected
C20_PayloadWithinBoundsWhenReturned ==
    p_done =>
        /\ p_out.raised # "none" <=> HoldsInfinity
        /\ p_out.raised = "none" =>
              (InBounds(p_out.payload) /\ OutOfRangePulledIn(p_out.payload))
        /\ ClampsIdempotent

\* ------------------------------------------------------------ profile store
\* a quiet_hours value that is absent, None, or passes validation
QuietHoursAcceptable(settings) ==
    \/ ~Has(settings, "quiet_hours")
    \/ settings["quiet_hours"].k = "none"
    \/ /\ settings["quiet_hours"].k \in {"str", "list"}
       /\ \A i \in 1..Len(OfferedEntries(settings["quiet_hours"])) :
             \/ IsBlank(OfferedEntries(settings["quiet_hours"])[i])
             \/ ReadsAsWindow(OfferedEntries(settings["quiet_hours"])[i])

\* C14: in every document obtained from a successful load and reached from it
\* by apply_preset and set_override, every quiet_hours value, wherever it
\* appears (global, any preset, any override), is absent or a list of valid
\* "HH:MM-HH:MM" strings; load and every update that introduces a new
\* quiet_hours value validate it and fail instead of producing a document
\* that breaks this.
C14_QuietHoursValidEverywhere ==
    /\ QuietHoursAcceptable(profiles.global)
    /\ \A name \in DOMAIN profiles.presets : QuietHoursAcceptable(profiles.presets[name])
    /\ \A node \in DOMAIN profiles.per_node_overrides :
          QuietHoursAcceptable(profiles.per_node_overrides[node])

\* what the code does provide: a document that load_profiles returns has an
\* acceptable global quiet_hours, and a load that finds it invalid fails with
\* the invalid entries in its error
C14_LoadValidatesGlobal ==
    [][s_call'.op = "load_profiles" =>
          /\ s_call'.raised = "none" => QuietHoursAcceptable(profiles'.global)
          /\ s_call'.invalid # <<>> =>
                (s_call'.raised = "ValueError" /\ UNCHANGED profiles)
      ]_vars

C14_LoadedInvalidPreset ==
    /\ s_call.op = "load_profiles"
    /\ s_call.raised = "none"
    /\ Has(profiles.presets, "night")
    /\ ~QuietHoursAcceptable(profiles.presets["night"])

\* a finite or infinite number
Numeric(value) == value.k \in {"num", "inf"}
\* a number clamped to [low, high], in units
Bounded(value, low, high) ==
    IF value.k = "inf" THEN high ELSE NearestBound(ToInt(value).v, low, high)
IsSet(settings, key) == Has(settings, key) /\ settings[key] = VBool(TRUE)
\* the layering of captions, safety_limiter, pace, mobility_buffer_ms and
\* repeat, for fields that hold flags and numbers
LayeredFields(payload) ==
    /\ payload.captions =
          IF Has(Override, "captions") THEN IsSet(Override, "captions")
          ELSE IsSet(Global, "captions")
    /\ payload.safety_limiter =
          IF Has(Override, "safety_limiter") THEN IsSet(Override, "safety_limiter")
          ELSE IF Has(Global, "safety_limiter") THEN IsSet(Global, "safety_limiter")
          ELSE TRUE
    /\ (Has(Override, "pace") /\ Override["pace"].k = "num") =>
          payload.pace = NearestBound(Override["pace"].n, 85, 115)
    /\ ~Has(Override, "pace") =>
          payload.pace = (IF IsSet(Global, "sensory_friendly") THEN 90 ELSE 100)
    /\ (Has(Override, "mobility_buffer_ms") /\ Numeric(Override["mobility_buffer_ms"])) =>
          payload.mobility_buffer_ms = Bounded(Override["mobility_buffer_ms"], 0, 60000)
    /\ (~Has(Override, "mobility_buffer_ms") /\ Has(Global, "mobility_buffer_ms")
            /\ Numeric(Global["mobility_buffer_ms"])) =>
          payload.mobility_buffer_ms = Bounded(Global["mobility_buffer_ms"], 0, 60000)
    /\ (~Has(Override, "mobility_buffer_ms") /\ ~Has(Global, "mobility_buffer_ms")) =>
          payload.mobility_buffer_ms = 800
    /\ (Has(Override, "repeat") /\ Numeric(Override["repeat"])) =>
          payload.repeat = Bounded(Override["repeat"], 0, 2)
    /\ ~Has(Override, "repeat") => payload.repeat = 0

\* C21: for captions, safety_limiter, pace, mobility_buffer_ms and repeat, a
\* field the override contains is used (clamped) whatever the global settings
\* are; without it captions is the global value or false, safety_limiter the
\* global value or true, pace 0.9 with sensory_friendly set and 1.0 without,
\* mobility_buffer_ms the global value clamped to [0, 60000] or 800, and
\* repeat 0.
C21_LayeringPrecedence ==
    p_done =>
        /\ p_out.raised = "none"
        /\ LayeredFields(p_out.payload)

\* what the code does provide: the layering holds in every payload that is
\* returned, and none is returned when mobility_buffer_ms or repeat is infinite
C21_LayeringWhenReturned ==
    p_done =>
        /\ p_out.raised # "none" <=> HoldsInfinity
        /\ p_out.raised = "none" => LayeredFields(p_out.payload)

\* the override's buffer wins over the global one
C21_WitnessOverrideWins ==
    /\ Resolved
    /\ Has(Override, "mobility_buffer_ms") /\ Override["mobility_buffer_ms"] = VNum(120000)
    /\ Has(Global, "mobility_buffer_ms") /\ Global["mobility_buffer_ms"] = VNum(7000000)
    /\ p_out.payload.mobility_buffer_ms = 1200

\* the fields of an override whose value is neither None nor ""
Kept(overrides) == {key \in DOMAIN overrides : overrides[key] \notin {VNone, VStr(<<>>)}}
Entries(doc) == doc.per_node_overrides
NoEmptyEntry(doc) == \A node \in DOMAIN Entries(doc) : DOMAIN Entries(doc)[node] # {}
\* what a call set_per_node_override(profiles, node_id, overrides) leaves
SetOverrideStep ==
    s_call'.op = "set_per_node_override" =>
        /\ Kept(s_call'.overrides) # {} =>
              /\ Has(Entries(profiles'), s_call'.node_id)
              /\ DOMAIN Entries(profiles')[s_call'.node_id] = Kept(s_call'.overrides)
              /\ \A key \in Kept(s_call'.overrides) :
                    Entries(profiles')[s_call'.node_id][key] = s_call'.overrides[key]
        /\ Kept(s_call'.overrides) = {} => ~Has(Entries(profiles'), s_call'.node_id)
        /\ \A node \in StoreNodes \ {s_call'.node_id} :
              /\ Has(Entries(profiles'), node) <=> Has(Entries(profiles), node)
              /\ Has(Entries(profiles), node) =>
                    Entries(profiles')[node] = Entries(profiles)[node]
        /\ profiles'.global = profiles.global
        /\ profiles'.presets = profiles.presets

\* C24: after set_override(doc, n, o) node n's entry holds exactly the fields
\* of o whose value is non-empty, the previous entry being replaced; when
\* every field of o is empty or absent node n has no entry afterwards; the
\* entries of other nodes, the global settings and the presets are unchanged;
\* and in every reachable document no node has an empty override entry.
C24_SetOverrideRoundTrip ==
    /\ [](NoEmptyEntry(profiles))
    /\ [][SetOverrideStep]_vars

\* the same without the claim about every reachable document: an entry that
\* load_profiles reads from the file is kept as it is
C24_SetOverrideReplacesEntry == [][SetOverrideStep]_vars

\* a call with one empty and one non-empty field, for a node the other node's
\* entry is next to
C24_Witness ==
    /\ s_call.op = "set_per_node_override"
    /\ s_call.node_id = "object1"
    /\ DOMAIN s_call.overrides = {"volume", "quiet_hours"}
    /\ s_call.overrides["volume"] = VStr(<<>>)
    /\ DOMAIN Entries(profiles) = {"object1", "object2"}
    /\ DOMAIN Entries(profiles)["object1"] = {"quiet_hours"}
\* a call that removes the entry load_profiles had read for object1
C24_WitnessRemoved ==
    /\ s_call.op = "set_per_node_override"
    /\ s_call.node_id = "object1"
    /\ Kept(s_call.overrides) = {}
    /\ profiles.global = FileCalm.doc["global"]
    /\ Entries(profiles) = <<>>
\* load_profiles returned a document with an entry that holds nothing
C24_WitnessLoadedEmptyEntry ==
    /\ s_call.op = "load_profiles"
    /\ Has(Entries(profiles), "object2")
    /\ Entries(profiles)["object2"] = <<>>

\* C25: apply_preset with a name that presets does not hold fails with a
\* not-found error, which is no validation error, and leaves global settings,
\* presets and per-node overrides as they were.
C25_UnknownPresetNotFound ==
    [][(s_call'.op = "apply_preset" /\ ~Has(profiles.presets, s_call'.preset_name)) =>
          /\ s_call'.raised = "KeyError"
          /\ s_call'.raised # "ValueError"
          /\ profiles' = profiles
      ]_vars

C25_Witness ==
    /\ s_call.op = "apply_preset"
    /\ s_call.raised = "KeyError"
    /\ s_call.preset_name = "unknown"
    /\ DOMAIN profiles.presets = {"calm"}
    /\ profiles.global # <<>>

\* C26: apply_preset with a name presets holds sets every field of the preset
\* in the global settings to the preset's value, leaves the other global
\* fields, the presets and the per-node overrides unchanged, and applied a
\* second time changes nothing.
C26_PresetOverwritesItsFields ==
    [][(s_call'.op = "apply_preset" /\ Has(profiles.presets, s_call'.preset_name)) =>
          LET preset == profiles.presets[s_call'.preset_name]
          IN  /\ s_call'.raised = "none"
              /\ DOMAIN profiles'.global = DOMAIN profiles.global \cup DOMAIN preset
              /\ \A key \in DOMAIN preset : profiles'.global[key] = preset[key]
              /\ \A key \in DOMAIN profiles.global \ DOMAIN preset :
                    profiles'.global[key] = profiles.global[key]
              /\ profiles'.presets = profiles.presets
              /\ profiles'.per_node_overrides = profiles.per_node_overrides
              /\ ApplyPreset(profiles', s_call'.preset_name).raised = "none"
              /\ ApplyPreset(profiles', s_call'.preset_name).doc = profiles'
      ]_vars

\* calm applied to the document of FileNight: captions is overwritten,
\* safety_limiter stays
C26_Witness ==
    /\ s_call.op = "apply_preset"
    /\ s_call.raised = "none"
    /\ s_call.preset_name = "calm"
    /\ profiles.presets = FileNight.doc["presets"]
    /\ profiles.global = ("captions" :> VBool(FALSE) @@ "safety_limiter" :> VBool(TRUE))

\* ------------------------------------------------- derive_runtime_payloads
Derived == s_call.op = "derive_runtime_payloads"
\* the verdict for the instant of the last call, and what resolve gives a node
\* from the document as it is now
VerdictNow == QuietHoursActive(Get(profiles.global, "quiet_hours", VNone), p_out.now)
OverrideNow(node_id) == Get(profiles.per_node_overrides, node_id, <<>>)
ResolveNow(node_id) == BuildNodePayload(profiles.global, OverrideNow(node_id), VerdictNow)
SameInputsAsFirst(node_id) ==
    /\ profiles.global = p_in.global_settings
    /\ OverrideNow(node_id) = p_in.node_override
    /\ VerdictNow = p_in.quiet_mode

C22_WitnessSameInputs ==
    /\ Derived /\ p_done /\ p_out.raised = "none"
    /\ \E node_id \in DOMAIN p_out.payloads :
          node_id # p_in.node_id /\ SameInputsAsFirst(node_id)

AllReturned == \A t \in AudioThreads : a_pc[t] = "done"
AllPlayed == \A t \in AudioThreads : a_op[t] = "play"

\* C27: when play() calls run concurrently on one player with a WAV loaded,
\* once all of them have returned every temporary file the player created is
\* deleted or is the file _temp_audio refers to, so at most one paced file is
\* left on disk.
C27_NoLeakedPacedCopy ==
    (AllReturned /\ AllPlayed) =>
        /\ temp_files \subseteq HandleSet
        /\ Cardinality(temp_files) <= 1

\* C28: a paced copy recorded in _temp_audio is unlinked by at most one
\* cleanup caller: of the callers that race, one takes the handle and sets it
\* to None while it holds _temp_lock and unlinks after releasing it; the
\* others find None and unlink nothing.
C28_UnlinkedByOneCaller ==
    /\ \A n \in TempNames : unlink_count[n] <= 1
    /\ \A t \in AudioThreads :
          /\ a_pc[t] \in {"cl_test", "cl_take", "cl_null"} => temp_lock = t
          /\ a_pc[t] = "cl_null" => (a_clean[t] = temp_audio /\ temp_audio # NoTemp)
          /\ a_pc[t] = "cl_unlink" =>
                /\ temp_lock # t
                /\ a_clean[t] # NoTemp
                /\ temp_audio # a_clean[t]
                /\ unlink_count[a_clean[t]] = 0
                /\ \A u \in AudioThreads \ {t} :
                      a_pc[u] \in {"cl_null", "cl_unlink"} => a_clean[u] # a_clean[t]

\* two cleanup calls have raced for the copy the player held: it is gone,
\* unlinked once
C28_Witness ==
    /\ AllReturned
    /\ \A t \in AudioThreads : a_op[t] = "cleanup"
    /\ temp_audio = NoTemp
    /\ temp_files = {}
    /\ unlink_count[1] = 1

====
